---- MODULE Spec2Model ----
(***************************************************************************)
(* Fixma: structural-similarity component extraction.                      *)
(*                                                                         *)
(* The document is an arena of nodes (a sequence of node records indexed   *)
(* by node id).  The scanner fingerprints FRAME/GROUP candidates and groups*)
(* them; the converter turns the first node of a group into a COMPONENT    *)
(* and replaces the members by INSTANCEs.                                  *)
(***************************************************************************)
EXTENDS Integers, Sequences, FiniteSets, TLC

VARIABLES
  doc,          \* the scene graph: Seq of node records, node id = index
  fontLoaded,   \* host state: are the fonts of the TEXT nodes loaded
  phase,        \* "idle" (-> "retyped") -> "scanned" -> "converted"
  includeProt,  \* includeProtected flag of the last scan
  groups,       \* ComponentGroup[] returned by the last scan
  visited,      \* nodes scanNode was called on during the last scan
  edits,        \* user edits made between the scan and the conversion
  pre,          \* the document at the moment convertGroups was called
  requests,     \* ConvertRequest[] of the conversion
  results,      \* ConvertResult[] of the conversion
  tree,         \* the scene graph the layout analysis runs on
  stored,       \* clientStorage["layoutConfig"]: <<>> or <<config>>
  config,       \* the config of the last layout analysis
  issues,       \* LayoutIssue[] returned by the last layout analysis
  fixes,        \* the fix calls made so far, latest last
  combine,      \* the combineAsVariants calls made so far, latest last
  calls,        \* the layout-config requests of the UI, in the order they came
  pcs,          \* pcs[i]: how far the handler of request i got
  resizePins    \* host: resize() of an auto-layout frame fixes its sizing modes

layoutVars == <<tree, stored, config, issues, fixes>>

vars == <<doc, fontLoaded, phase, includeProt, groups, visited, edits, pre,
          requests, results, tree, stored, config, issues, fixes, combine,
          calls, pcs, resizePins>>

(***************************************************************************)
(* Bounds of the model.                                                    *)
(***************************************************************************)
MaxEdits == 1

(***************************************************************************)
(* Small helpers on sequences.                                             *)
(***************************************************************************)
NoNode == 0
Page == 1

Range(s) == {s[i] : i \in 1..Len(s)}

Without(s, e) == SelectSeq(s, LAMBDA k : k # e)

\* Array.prototype.indexOf: 0-based, -1 when absent
IndexOf(s, e) ==
  IF \E i \in 1..Len(s) : s[i] = e
  THEN (CHOOSE i \in 1..Len(s) : s[i] = e /\ \A j \in 1..(i-1) : s[j] # e) - 1
  ELSE -1

\* insert e so that it gets 0-based index i (clamped to the end)
InsertAt(s, i, e) ==
  IF i >= Len(s) THEN Append(s, e)
  ELSE SubSeq(s, 1, i) \o <<e>> \o SubSeq(s, i + 1, Len(s))

Max(a, b) == IF a >= b THEN a ELSE b

\* the sequence with the elements of the function f on 1..n, computed once
Tup(f) == f \o <<>>

(***************************************************************************)
(* The host document model (the plugin API the engine consumes).           *)
(***************************************************************************)
ContainerTypes == {"PAGE", "FRAME", "GROUP", "COMPONENT", "INSTANCE"}

\* the auto-layout metadata of a node without auto-layout
NoLayout ==
  [layoutMode |-> "NONE",
   primaryAxisSizingMode |-> "AUTO", counterAxisSizingMode |-> "AUTO",
   itemSpacing |-> 0,
   paddingLeft |-> 0, paddingRight |-> 0, paddingTop |-> 0, paddingBottom |-> 0]

\* atFirst is a ghost: <<lay>> of a component at the moment its first child
\* was appended, <<>> before that
NewNode(t, nm, x, y, w, h) ==
  [type |-> t, name |-> nm, parent |-> NoNode, kids |-> <<>>,
   x |-> x, y |-> y, w |-> w, h |-> h,
   chars |-> "", fills |-> <<>>, main |-> NoNode, live |-> TRUE,
   lay |-> NoLayout, atFirst |-> <<>>]

\* figma.getNodeById: NoNode stands for null
GetNodeById(d, id) == IF id \in 1..Len(d) /\ d[id].live THEN id ELSE NoNode

\* typeof node.appendChild === "function"
HasAppendChild(d, n) == d[n].type \in ContainerTypes

RECURSIVE Ancestors(_, _)
Ancestors(d, n) ==
  IF d[n].parent = NoNode THEN {}
  ELSE {d[n].parent} \cup Ancestors(d, d[n].parent)

RECURSIVE Subtree(_, _)
Subtree(d, n) == {n} \cup UNION {Subtree(d, k) : k \in Range(d[n].kids)}

\* pre-order list of the descendants of n (node.findAll order)
RECURSIVE DescSeq(_, _)
RECURSIVE DescOfKids(_, _, _)
DescSeq(d, n) == DescOfKids(d, d[n].kids, 1)
DescOfKids(d, ks, i) ==
  IF i > Len(ks) THEN <<>>
  ELSE <<ks[i]>> \o DescSeq(d, ks[i]) \o DescOfKids(d, ks, i + 1)

\* absoluteTransform translation: sum of the relative offsets up to the page
RECURSIVE AbsX(_, _)
AbsX(d, n) == IF d[n].parent = NoNode THEN d[n].x ELSE d[n].x + AbsX(d, d[n].parent)
RECURSIVE AbsY(_, _)
AbsY(d, n) == IF d[n].parent = NoNode THEN d[n].y ELSE d[n].y + AbsY(d, d[n].parent)

\* the host refuses structural changes in an instance and below it
InInstanceTree(d, n) ==
  d[n].type = "INSTANCE" \/ \E a \in Ancestors(d, n) : d[a].type = "INSTANCE"

Kill(d, S) ==
  Tup([i \in 1..Len(d) |-> IF i \in S THEN [d[i] EXCEPT !.live = FALSE] ELSE d[i]])

\* take c out of its parent's children; the host deletes a group that
\* becomes empty
RECURSIVE DetachFrom(_, _)
DetachFrom(d, c) ==
  LET p == d[c].parent IN
  IF p = NoNode THEN d
  ELSE LET d1 == [d EXCEPT ![p].kids = Without(@, c), ![c].parent = NoNode]
       IN IF d1[p].type = "GROUP" /\ d1[p].kids = <<>>
          THEN Kill(DetachFrom(d1, p), {p})
          ELSE d1

\* node.remove()
CanRemove(d, n) ==
  /\ d[n].live
  /\ ~ \E a \in Ancestors(d, n) : d[a].type = "INSTANCE"
RemoveNode(d, n) == Kill(DetachFrom(d, n), Subtree(d, n))

\* parent.appendChild(child) / parent.insertChild(index, child)
CanReparent(d, p, c) ==
  /\ d[p].live /\ d[c].live
  /\ d[p].type \in ContainerTypes
  /\ ~ InInstanceTree(d, p)
  /\ ~ \E a \in Ancestors(d, c) : d[a].type = "INSTANCE"
InsertChild(d, p, i, c) ==
  LET d1 == IF d[c].parent = p
            THEN [d EXCEPT ![p].kids = Without(@, c)]
            ELSE DetachFrom(d, c)
  IN [d1 EXCEPT ![p].kids = InsertAt(@, i, c), ![c].parent = p,
                ![p].atFirst = IF d[p].type = "COMPONENT" /\ d[p].kids = <<>>
                                  /\ @ = <<>>
                               THEN <<d[p].lay>> ELSE @]
AppendChild(d, p, c) == InsertChild(d, p, Len(d[p].kids), c)

\* node.resize(w, h): the host rejects a dimension below 0.01; whether
\* resizing an auto-layout frame switches its sizing modes to FIXED is the
\* host's choice (resizePins)
CanResize(w, h) == w > 0 /\ h > 0
Resize(d, n, w, h) ==
  IF resizePins /\ d[n].lay.layoutMode # "NONE"
  THEN [d EXCEPT ![n].w = w, ![n].h = h,
                 ![n].lay.primaryAxisSizingMode = "FIXED",
                 ![n].lay.counterAxisSizingMode = "FIXED"]
  ELSE [d EXCEPT ![n].w = w, ![n].h = h]

\* deep copy of the subtree of src; the copy of src gets id Len(d) + 1
RECURSIVE CopyNode(_, _, _)
RECURSIVE CopyKids(_, _, _, _)
CopyNode(d, src, par) ==
  LET id == Len(d) + 1
      d1 == Append(d, [d[src] EXCEPT !.parent = par, !.kids = <<>>])
  IN CopyKids(d1, d[src].kids, 1, id)
CopyKids(d, ks, i, par) ==
  IF i > Len(ks) THEN d
  ELSE LET cid == Len(d) + 1
           d1 == CopyNode(d, ks[i], par)
       IN CopyKids([d1 EXCEPT ![par].kids = Append(@, cid)], ks, i + 1, par)

\* node.clone(): the duplicate is parented under the current page
Clone(d, src) ==
  LET id == Len(d) + 1
      d1 == CopyNode(d, src, Page)
  IN [d1 EXCEPT ![Page].kids = Append(@, id)]

\* figma.createComponent(): empty 100x100 component on the current page
CreateComponent(d) ==
  LET id == Len(d) + 1
      d1 == Append(d, [NewNode("COMPONENT", "Component", 0, 0, 100, 100)
                         EXCEPT !.parent = Page])
  IN [d1 EXCEPT ![Page].kids = Append(@, id)]

\* component.createInstance(): a linked copy on the current page
CreateInstance(d, comp) ==
  LET id == Len(d) + 1
      d1 == CopyNode(d, comp, Page)
  IN [d1 EXCEPT ![Page].kids = Append(@, id),
                ![id].type = "INSTANCE", ![id].main = comp,
                ![id].x = 0, ![id].y = 0]

(***************************************************************************)
(* Strings the engine builds are sequences of UTF-16 code units, so that   *)
(* concatenation and Array.prototype.sort (code-unit order) are computed.  *)
(***************************************************************************)
TypeStr(t) ==
  CASE t = "FRAME"     -> <<70, 82, 65, 77, 69>>
    [] t = "GROUP"     -> <<71, 82, 79, 85, 80>>
    [] t = "TEXT"      -> <<84, 69, 88, 84>>
    [] t = "RECTANGLE" -> <<82, 69, 67, 84, 65, 78, 71, 76, 69>>
    [] t = "LINE"      -> <<76, 73, 78, 69>>
    [] t = "ELLIPSE"   -> <<69, 76, 76, 73, 80, 83, 69>>
    [] t = "VECTOR"    -> <<86, 69, 67, 84, 79, 82>>
    [] t = "COMPONENT" -> <<67, 79, 77, 80, 79, 78, 69, 78, 84>>
    [] t = "INSTANCE"  -> <<73, 78, 83, 84, 65, 78, 67, 69>>
    [] t = "PAGE"      -> <<80, 65, 71, 69>>

\* decimal digits of a natural number
RECURSIVE NumStr(_)
NumStr(n) == IF n < 10 THEN <<48 + n>> ELSE NumStr(n \div 10) \o <<48 + (n % 10)>>

\* a < b in code-unit (lexicographic) order
RECURSIVE StrLess(_, _)
StrLess(a, b) ==
  IF b = <<>> THEN FALSE
  ELSE IF a = <<>> THEN TRUE
  ELSE IF Head(a) # Head(b) THEN Head(a) < Head(b)
  ELSE StrLess(Tail(a), Tail(b))

RECURSIVE SortInsert(_, _)
SortInsert(sorted, e) ==
  IF sorted = <<>> THEN <<e>>
  ELSE IF StrLess(e, Head(sorted)) THEN <<e>> \o sorted
  ELSE <<Head(sorted)>> \o SortInsert(Tail(sorted), e)

\* Array.prototype.sort() without comparator
RECURSIVE SortStrs(_)
SortStrs(s) == IF s = <<>> THEN <<>> ELSE SortInsert(SortStrs(Tail(s)), Head(s))

\* Array.prototype.join(",")
RECURSIVE JoinComma(_)
JoinComma(s) ==
  IF s = <<>> THEN <<>>
  ELSE IF Len(s) = 1 THEN s[1]
  ELSE s[1] \o <<44>> \o JoinComma(Tail(s))

(***************************************************************************)
(* scanner.ts: fingerprint                                                 *)
(***************************************************************************)
SNAP == 4
maxDepth == 4

\* Math.round(v / SNAP) * SNAP on non-negative integers
snap(v) == ((2 * v + SNAP) \div (2 * SNAP)) * SNAP

FpBaseSizeOnly(t, w, h) == <<58>> \o NumStr(snap(w)) \o <<120>> \o NumStr(snap(h))

\* `${type}:${w}x${h}`
FpBase(t, w, h) == TypeStr(t) \o <<58>> \o NumStr(snap(w)) \o <<120>> \o NumStr(snap(h))

NoSort(fps) == fps

\* .sort() of the child fingerprints
SortChildFps(fps) == SortStrs(fps)

RECURSIVE buildFingerprint(_, _, _)
buildFingerprint(d, n, depth) ==
  LET base == FpBase(d[n].type, d[n].w, d[n].h) IN
  IF depth >= maxDepth \/ d[n].kids = <<>> THEN base
  ELSE LET childFps == SortChildFps(Tup([i \in 1..Len(d[n].kids) |->
                                       buildFingerprint(d, d[n].kids[i], depth + 1)]))
       IN base \o <<91>> \o JoinComma(childFps) \o <<93>>

CANDIDATE_TYPES == {"FRAME", "GROUP"}
PROTECTED_TYPES == {"COMPONENT", "INSTANCE"}

isInsideProtected(d, n) == \E a \in Ancestors(d, n) : d[a].type \in PROTECTED_TYPES

isInsideInstance(d, n) == \E a \in Ancestors(d, n) : d[a].type = "INSTANCE"

(***************************************************************************)
(* scanner.ts: content diff                                                *)
(***************************************************************************)
Tol == 10     \* 0.01 with colour channels counted in thousandths

Abs(v) == IF v < 0 THEN 0 - v ELSE v

fillsEqual(a, b) ==
  /\ Len(a) = Len(b)
  /\ \A i \in 1..Len(a) :
       /\ a[i].type = b[i].type
       /\ a[i].type = "SOLID" =>
            ~ \/ Abs(a[i].r - b[i].r) > Tol
              \/ Abs(a[i].g - b[i].g) > Tol
              \/ Abs(a[i].b - b[i].b) > Tol
              \/ Abs(a[i].opacity - b[i].opacity) > Tol

\* node.findAll(n => n.type === "TEXT")
TextNodes(d, n) == SelectSeq(DescSeq(d, n), LAMBDA t : d[t].type = "TEXT")

\* the fill diffs pushed for the SOLID paints of the candidate
RECURSIVE SolidFillDiffs(_, _)
SolidFillDiffs(fills, i) ==
  IF i > Len(fills) THEN <<>>
  ELSE (IF fills[i].type = "SOLID"
        THEN <<[fillIndex |-> i - 1, r |-> fills[i].r, g |-> fills[i].g,
                b |-> fills[i].b, a |-> fills[i].opacity]>>
        ELSE <<>>) \o SolidFillDiffs(fills, i + 1)

DiffOf(d, master, snapshot) ==
  LET node == GetNodeById(d, snapshot.id)
      mts == TextNodes(d, master)
      \* Map.set keeps the last value written for a name
      masterHas(nm) == \E i \in 1..Len(mts) : d[mts[i]].name = nm
      masterValue(nm) ==
        LET last == CHOOSE i \in 1..Len(mts) :
                      /\ d[mts[i]].name = nm
                      /\ \A j \in (i+1)..Len(mts) : d[mts[j]].name # nm
        IN d[mts[last]].chars
      changed == SelectSeq(TextNodes(d, node),
                   LAMBDA t : masterHas(d[t].name) /\ masterValue(d[t].name) # d[t].chars)
      nodeFills == d[node].fills
  IN IF node = NoNode
     THEN [nodeId |-> snapshot.id, textDiffs |-> <<>>, fillDiffs |-> <<>>, rawFills |-> <<>>]
     ELSE [nodeId |-> snapshot.id,
           textDiffs |-> Tup([i \in 1..Len(changed) |->
                            [childName |-> d[changed[i]].name, value |-> d[changed[i]].chars]]),
           fillDiffs |-> IF ~ fillsEqual(d[master].fills, nodeFills)
                         THEN SolidFillDiffs(nodeFills, 1) ELSE <<>>,
           rawFills |-> nodeFills]

computeDiffs(d, nodes) ==
  IF Len(nodes) < 2 THEN <<>>
  ELSE LET masterNode == GetNodeById(d, nodes[1].id) IN
       IF masterNode = NoNode THEN <<>>
       ELSE Tup([i \in 1..(Len(nodes) - 1) |-> DiffOf(d, masterNode, nodes[i + 1])])

(***************************************************************************)
(* scanner.ts: scan                                                        *)
(***************************************************************************)
Snapshot(d, n) ==
  [id |-> n, name |-> d[n].name, type |-> d[n].type,
   width |-> d[n].w, height |-> d[n].h,
   absoluteX |-> AbsX(d, n), absoluteY |-> AbsY(d, n),
   relativeX |-> d[n].x, relativeY |-> d[n].y,
   parentId |-> d[n].parent,
   insideProtected |-> isInsideProtected(d, n)]

\* the first half of scanNode: is the node recorded as a candidate
IsCandidate(d, n, includeProtected) ==
  /\ d[n].type \in CANDIDATE_TYPES
  /\ d[n].kids # <<>>
  /\ (~ isInsideProtected(d, n) \/ includeProtected)

DescendsAlways(d, n, includeProtected) == TRUE

\* the second half of scanNode: are the children visited
Descends(d, n, includeProtected) ==
  ~ (~ includeProtected /\ d[n].type \in PROTECTED_TYPES)

\* the nodes scanNode is called on, in call order
RECURSIVE scanNode(_, _, _)
RECURSIVE scanKids(_, _, _, _)
scanNode(d, n, includeProtected) ==
  <<n>> \o (IF Descends(d, n, includeProtected)
            THEN scanKids(d, d[n].kids, 1, includeProtected)
            ELSE <<>>)
scanKids(d, ks, i, includeProtected) ==
  IF i > Len(ks) THEN <<>>
  ELSE scanNode(d, ks[i], includeProtected) \o scanKids(d, ks, i + 1, includeProtected)

\* fpMap after the traversal: one entry per fingerprint, in the order the
\* fingerprints were first met, each with its snapshots in visit order
FpMapOf(d, includeProtected) ==
  LET cands == SelectSeq(scanNode(d, Page, includeProtected),
                         LAMBDA n : IsCandidate(d, n, includeProtected))
      fps == Tup([i \in 1..Len(cands) |-> buildFingerprint(d, cands[i], 0)])
      idx == {i \in 1..Len(cands) : \A j \in 1..(i - 1) : fps[j] # fps[i]}
      firsts == SelectSeq(cands, LAMBDA n : IndexOf(cands, n) + 1 \in idx)
      same(n) == SelectSeq(cands, LAMBDA m : fps[IndexOf(cands, m) + 1] = fps[IndexOf(cands, n) + 1])
  IN Tup([k \in 1..Len(firsts) |->
            [fp |-> fps[IndexOf(cands, firsts[k]) + 1],
             nodes |-> Tup([m \in 1..Len(same(firsts[k])) |->
                              Snapshot(d, same(firsts[k])[m])])]])

\* groups.push for every fpMap entry that has at least 2 nodes
KeepGroup(entry) == Len(entry.nodes) >= 2

GroupOf(d, entry) ==
  LET diffs == computeDiffs(d, entry.nodes) IN
  [fingerprint |-> entry.fp, nodes |-> entry.nodes,
   hasDiffs |-> \E i \in 1..Len(diffs) :
                  Len(diffs[i].textDiffs) > 0 \/ Len(diffs[i].fillDiffs) > 0,
   diffs |-> diffs]

\* the groups before the final sort, in fpMap order
UnsortedGroups(d, includeProtected) ==
  LET kept == SelectSeq(FpMapOf(d, includeProtected), KeepGroup)
  IN Tup([i \in 1..Len(kept) |-> GroupOf(d, kept[i])])

VisitedBy(d, includeProtected) == Range(scanNode(d, Page, includeProtected))

\* groups.sort: larger groups first; the order of equally large groups is
\* decided by label.localeCompare, which is left open here: gs is any
\* arrangement of the groups that has the larger groups first
SortedBySize(gs) ==
  \A i \in 1..(Len(gs) - 1) : Len(gs[i].nodes) >= Len(gs[i + 1].nodes)

(***************************************************************************)
(* converter.ts                                                            *)
(*                                                                         *)
(* A host call that throws is modelled by its precondition (CanResize,     *)
(* CanReparent, CanRemove): the operators below return ok = FALSE together *)
(* with the document as it was when the exception left the function.       *)
(* inst / comp / made / comps record which nodes a call created.           *)
(***************************************************************************)
OFFSET_PX == 500
StackGap == 40

CONVERTIBLE_TYPES == {"FRAME", "GROUP", "RECTANGLE", "ELLIPSE", "VECTOR"}

\* for (child of children) comp.appendChild(child), x/y restored after it
RECURSIVE MoveChildren(_, _, _, _)
MoveChildren(d, ks, i, comp) ==
  IF i > Len(ks) THEN [ok |-> TRUE, d |-> d]
  ELSE IF ~ CanReparent(d, comp, ks[i]) THEN [ok |-> FALSE, d |-> d]
  ELSE MoveChildren([AppendChild(d, comp, ks[i])
                       EXCEPT ![ks[i]].x = d[ks[i]].x, ![ks[i]].y = d[ks[i]].y],
                    ks, i + 1, comp)

\* for (child of children) comp.appendChild(child): the host places the
\* children of an auto-layout component
RECURSIVE MoveChildrenAuto(_, _, _, _)
MoveChildrenAuto(d, ks, i, comp) ==
  IF i > Len(ks) THEN [ok |-> TRUE, d |-> d]
  ELSE IF ~ CanReparent(d, comp, ks[i]) THEN [ok |-> FALSE, d |-> d]
  ELSE MoveChildrenAuto(AppendChild(d, comp, ks[i]), ks, i + 1, comp)

\* node.type === "FRAME" && layoutMode && layoutMode !== "NONE"
IsAutoLayout(d, n) == d[n].type = "FRAME" /\ d[n].lay.layoutMode # "NONE"

NoLayoutCopy(d, src, comp) == d

\* the auto-layout properties of the source are set on the component
CopyLayout(d, src, comp) ==
  IF IsAutoLayout(d, src) THEN [d EXCEPT ![comp].lay = d[src].lay] ELSE d

\* the component is filled with the children of src
FillComponent(d, src, comp) ==
  IF IsAutoLayout(d, src) THEN MoveChildrenAuto(d, d[src].kids, 1, comp)
  ELSE MoveChildren(d, d[src].kids, 1, comp)

\* the size is locked again after the children have arrived
RelockSize(d, src, comp, w, h) ==
  IF IsAutoLayout(d, src)
  THEN LET hFixed == d[src].lay.primaryAxisSizingMode = "FIXED"
           vFixed == d[src].lay.counterAxisSizingMode = "FIXED"
       IN IF hFixed \/ vFixed
          THEN Resize(d, comp, IF hFixed THEN w ELSE d[comp].w,
                               IF vFixed THEN h ELSE d[comp].h)
          ELSE d
  ELSE Resize(d, comp, w, h)

\* step 3 of extractFromProtected: the try block that splices an instance
\* in and removes the original; whatever it throws is swallowed
SpliceInstance(d, node, comp, originalParent, zIndex, relX, relY) ==
  LET instance == Len(d) + 1
      d1 == CreateInstance(d, comp)
  IN IF originalParent # NoNode /\ HasAppendChild(d, originalParent)
     THEN IF ~ CanReparent(d1, originalParent, instance)
          THEN [d |-> d1, inst |-> instance]
          ELSE LET d2 == IF zIndex >= 0
                         THEN InsertChild(d1, originalParent, zIndex, instance)
                         ELSE AppendChild(d1, originalParent, instance)
                   d3 == [d2 EXCEPT ![instance].x = relX, ![instance].y = relY]
               IN [d |-> IF CanRemove(d3, node) THEN RemoveNode(d3, node) ELSE d3,
                   inst |-> instance]
     ELSE [d |-> IF CanRemove(d, node) THEN RemoveNode(d, node) ELSE d,
           inst |-> NoNode]

extractFromProtected(d, node) ==
  LET w == d[node].w
      h == d[node].h
      originalParent == d[node].parent
      zIndex == IF originalParent # NoNode
                THEN IndexOf(d[originalParent].kids, node) ELSE -1
      cloned == Len(d) + 1
      d1 == AppendChild(Clone(d, node), Page, cloned)
      comp == Len(d1) + 1
      d2 == [CreateComponent(d1) EXCEPT ![comp].name = d[node].name]
      d3 == IF d2[cloned].type = "FRAME"
            THEN [CopyLayout(d2, cloned, comp) EXCEPT ![comp].fills = d2[cloned].fills]
            ELSE d2
  IN IF ~ CanResize(w, h)
     THEN [ok |-> FALSE, d |-> d3, comp |-> comp, inst |-> NoNode]
     ELSE LET mv == FillComponent(Resize(d3, comp, w, h), cloned, comp)
          IN IF ~ mv.ok
             THEN [ok |-> FALSE, d |-> mv.d, comp |-> comp, inst |-> NoNode]
             ELSE LET d4 == IF d3[cloned].kids # <<>>
                            THEN RelockSize(mv.d, cloned, comp, w, h) ELSE mv.d
                      d5 == IF CanRemove(d4, cloned) THEN RemoveNode(d4, cloned) ELSE d4
                      sp == SpliceInstance(d5, node, comp, originalParent, zIndex,
                                           d[node].x, d[node].y)
                  IN [ok |-> TRUE, d |-> sp.d, comp |-> comp, inst |-> sp.inst]

extractToComponent(d, node) ==
  IF d[node].type \notin CONVERTIBLE_TYPES
  THEN [ok |-> FALSE, d |-> d, comp |-> NoNode, inst |-> NoNode]
  ELSE IF isInsideProtected(d, node) THEN extractFromProtected(d, node)
  ELSE LET w == d[node].w
           h == d[node].h
           comp == Len(d) + 1
           d1 == [CreateComponent(d) EXCEPT ![comp].name = d[node].name]
           d2 == IF d[node].type = "FRAME"
                 THEN [CopyLayout(d1, node, comp) EXCEPT ![comp].fills = d[node].fills]
                 ELSE d1
       IN IF ~ CanResize(w, h)
          THEN [ok |-> FALSE, d |-> d2, comp |-> comp, inst |-> NoNode]
          ELSE LET mv == FillComponent(Resize(d2, comp, w, h), node, comp)
               IN IF ~ mv.ok
                  THEN [ok |-> FALSE, d |-> mv.d, comp |-> comp, inst |-> NoNode]
                  ELSE LET d3 == RelockSize(mv.d, node, comp, w, h)
                       IN [ok |-> TRUE,
                           d |-> IF GetNodeById(d3, node) # NoNode /\ CanRemove(d3, node)
                                 THEN RemoveNode(d3, node) ELSE d3,
                           comp |-> comp, inst |-> NoNode]

\* target.characters = td.value for every text diff, in order; the
\* assignment throws (and is swallowed) when the font is not loaded
RECURSIVE ApplyTextDiffs(_, _, _, _, _)
ApplyTextDiffs(d, textNodes, tds, i, font) ==
  IF i > Len(tds) THEN [d |-> d, applied |-> 0]
  ELSE LET hits == SelectSeq(textNodes, LAMBDA t : d[t].name = tds[i].childName)
       IN IF hits # <<>> /\ font
          THEN LET r == ApplyTextDiffs([d EXCEPT ![hits[1]].chars = tds[i].value],
                                       textNodes, tds, i + 1, font)
               IN [d |-> r.d, applied |-> r.applied + 1]
          ELSE ApplyTextDiffs(d, textNodes, tds, i + 1, font)

applyOverrides(d, instance, diff, font) ==
  LET t == IF Len(diff.textDiffs) > 0
           THEN ApplyTextDiffs(d, TextNodes(d, instance), diff.textDiffs, 1, font)
           ELSE [d |-> d, applied |-> 0]
  IN IF Len(diff.fillDiffs) > 0 /\ Len(diff.rawFills) > 0
     THEN [d |-> [t.d EXCEPT ![instance].fills = diff.rawFills], applied |-> t.applied + 1]
     ELSE t

ErrorAt(where, id) == [where |-> where, id |-> id]

\* step 2c, catch: the member is reported and not counted
MemberFailed(st, nodeId, d) ==
  [st EXCEPT !.d = d, !.errors = Append(@, ErrorAt("Node", nodeId))]

\* step 2c, protected member: ex is what extractToComponent(node) did
ReplaceProtected(st, i, nodeId, ex) ==
  IF ~ ex.ok
  THEN [MemberFailed(st, nodeId, ex.d) EXCEPT
          !.comps = IF ex.comp = NoNode THEN @ ELSE @ \cup {ex.comp}]
  ELSE [st EXCEPT !.d = ex.d,
                  !.instanceCount = @ + 1,
                  !.successCount = @ + 1,
                  !.counted = @ \cup {i},
                  !.comps = @ \cup {ex.comp},
                  !.made = IF ex.inst = NoNode THEN @
                           ELSE Append(@, [member |-> i, inst |-> ex.inst])]

\* step 2c, free member, once the instance is placed (document d3)
OverrideAndCount(st, req, i, font, instance, d3) ==
  LET ov == IF i - 1 <= Len(req.diffs)
            THEN applyOverrides(d3, instance, req.diffs[i - 1], font)
            ELSE [d |-> d3, applied |-> 0]
  IN [st EXCEPT !.d = ov.d,
                !.instanceCount = @ + 1,
                !.successCount = @ + 1,
                !.counted = @ \cup {i},
                !.overridesApplied = @ + ov.applied,
                !.made = Append(@, [member |-> i, inst |-> instance])]

\* step 2c, free member: d2 is the document after node.remove() and
\* masterComponent.createInstance()
ReplaceFree(st, req, i, font, nodeParent, relX, relY, zIndex, parentIsInstance, d2) ==
  LET instance == Len(st.d) + 1   \* node.remove() leaves the ids as they are
      canInsertIntoParent ==
        nodeParent # NoNode /\ HasAppendChild(d2, nodeParent) /\ ~ parentIsInstance
  IN IF canInsertIntoParent /\ ~ CanReparent(d2, nodeParent, instance)
     THEN [MemberFailed(st, req.nodeIds[i], d2) EXCEPT
             !.made = Append(@, [member |-> i, inst |-> instance])]
     ELSE OverrideAndCount(st, req, i, font, instance,
            IF canInsertIntoParent
            THEN [(IF zIndex >= 0
                   THEN InsertChild(AppendChild(d2, nodeParent, instance),
                                    nodeParent, zIndex, instance)
                   ELSE AppendChild(d2, nodeParent, instance))
                    EXCEPT ![instance].x = relX, ![instance].y = relY]
            ELSE [AppendChild(d2, Page, instance) EXCEPT
                    ![instance].x = req.nodes[i].absoluteX,
                    ![instance].y = req.nodes[i].absoluteY])

\* step 2c for the member at (1-based) position i of the request
ReplaceMember(st, req, i, master, font) ==
  LET d == st.d
      nodeId == req.nodeIds[i]
      node == GetNodeById(d, nodeId)
      nodeParent == d[node].parent
  IN IF node = NoNode THEN MemberFailed(st, nodeId, d)
     ELSE IF isInsideProtected(d, node)
     THEN ReplaceProtected(st, i, nodeId, extractToComponent(d, node))
     ELSE IF ~ CanRemove(d, node) THEN MemberFailed(st, nodeId, d)
     ELSE ReplaceFree(st, req, i, font, nodeParent, d[node].x, d[node].y,
                      IF nodeParent # NoNode THEN IndexOf(d[nodeParent].kids, node) ELSE -1,
                      nodeParent # NoNode /\ isInsideInstance(d, nodeParent),
                      CreateInstance(RemoveNode(d, node), master))

RECURSIVE ReplaceMembers(_, _, _, _, _)
ReplaceMembers(st, req, i, master, font) ==
  IF i > Len(req.nodeIds) THEN st
  ELSE ReplaceMembers(ReplaceMember(st, req, i, master, font), req, i + 1, master, font)

\* step 2b: the instance for the first node
PlaceFirstInstance(st, req, master) ==
  LET d == st.d
      masterMeta == req.nodes[1]
      firstParent == IF masterMeta.parentId # NoNode
                     THEN GetNodeById(d, masterMeta.parentId) ELSE NoNode
      firstInst == Len(d) + 1
      d1 == CreateInstance(d, master)
      firstParentIsInstance ==
        IF firstParent # NoNode THEN isInsideInstance(d1, firstParent) ELSE FALSE
      made1 == Append(st.made, [member |-> 1, inst |-> firstInst])
      counted(dd) == [st EXCEPT !.d = dd, !.made = made1,
                                !.counted = @ \cup {1},
                                !.instanceCount = @ + 1, !.successCount = @ + 1]
  IN IF firstParent # NoNode /\ HasAppendChild(d1, firstParent) /\ ~ firstParentIsInstance
     THEN IF ~ CanReparent(d1, firstParent, firstInst)
          THEN [st EXCEPT !.d = d1, !.made = made1,
                          !.errors = Append(@, ErrorAt("First instance", req.nodeIds[1]))]
          ELSE counted([AppendChild(d1, firstParent, firstInst) EXCEPT
                          ![firstInst].x = masterMeta.relativeX,
                          ![firstInst].y = masterMeta.relativeY])
     ELSE counted([AppendChild(d1, Page, firstInst) EXCEPT
                     ![firstInst].x = masterMeta.absoluteX,
                     ![firstInst].y = masterMeta.absoluteY])

Result(req, componentId, st) ==
  [fingerprint |-> req.fingerprint,
   componentId |-> componentId,
   masterNodeId |-> IF Len(req.nodeIds) >= 1 THEN req.nodeIds[1] ELSE NoNode,
   instanceCount |-> st.instanceCount,
   successCount |-> st.successCount,
   overridesApplied |-> st.overridesApplied,
   errors |-> st.errors,
   made |-> st.made, counted |-> st.counted, comps |-> st.comps]

EmptyTally(d) ==
  [d |-> d, instanceCount |-> 0, successCount |-> 0, overridesApplied |-> 0,
   errors |-> <<>>, made |-> <<>>, counted |-> {}, comps |-> {}]

\* step 2a, catch: the request is reported as failed
MasterFailed(d, placementY, req, comps) ==
  [d |-> d, placementY |-> placementY,
   result |-> Result(req, NoNode,
                     [EmptyTally(d) EXCEPT !.errors = <<ErrorAt("Master", req.nodeIds[1])>>,
                                           !.comps = comps])]

\* step 2a: the master component of the request
CreateMaster(d, masterNode) ==
  IF d[masterNode].type = "COMPONENT"
  THEN [ok |-> CanReparent(d, Page, masterNode),
        d |-> IF CanReparent(d, Page, masterNode)
              THEN AppendChild(d, Page, masterNode) ELSE d,
        comp |-> masterNode, inst |-> NoNode]
  ELSE extractToComponent(d, masterNode)

\* the end of the callback: st is the tally after steps 2b and 2c
RequestDone(req, master, placementY, st) ==
  [d |-> st.d, placementY |-> placementY, result |-> Result(req, master, st)]

\* steps 2a (placement), 2b and 2c: ex is what CreateMaster did
AfterMaster(d, placementY, maxRight, req, font, masterNode, ex) ==
  LET created == IF ex.comp = NoNode \/ d[masterNode].type = "COMPONENT"
                 THEN {} ELSE {ex.comp}
      master == ex.comp
      st1 == [EmptyTally([AppendChild(ex.d, Page, master) EXCEPT
                            ![master].x = maxRight + OFFSET_PX,
                            ![master].y = placementY])
                EXCEPT !.successCount = 1,
                       !.comps = created,
                       !.made = IF ex.inst = NoNode THEN <<>>
                                ELSE <<[member |-> 1, inst |-> ex.inst]>>]
  IN IF ~ ex.ok THEN MasterFailed(ex.d, placementY, req, created)
     ELSE RequestDone(req, master, placementY + ex.d[master].h + StackGap,
                      ReplaceMembers(PlaceFirstInstance(st1, req, master),
                                     req, 2, master, font))

\* the callback of requests.map; returns [d, placementY, result]
ConvertRequest(d, placementY, maxRight, req, font) ==
  IF Len(req.nodeIds) < 1
  THEN [d |-> d, placementY |-> placementY,
        result |-> Result(req, NoNode,
                          [EmptyTally(d) EXCEPT !.errors = <<ErrorAt("No node IDs", NoNode)>>])]
  ELSE IF GetNodeById(d, req.nodeIds[1]) = NoNode
  THEN MasterFailed(d, placementY, req, {})
  ELSE AfterMaster(d, placementY, maxRight, req, font, req.nodeIds[1],
                   CreateMaster(d, req.nodeIds[1]))

\* step 1: rightmost edge over all nodes of all requests
RECURSIVE MaxRightOf(_, _)
MaxRightOf(metas, i) ==
  IF i > Len(metas) THEN -1000000
  ELSE Max(metas[i].absoluteX + metas[i].width, MaxRightOf(metas, i + 1))

RECURSIVE AllMetas(_, _)
AllMetas(reqs, i) ==
  IF i > Len(reqs) THEN <<>> ELSE reqs[i].nodes \o AllMetas(reqs, i + 1)

MaxRightFirstOnly(reqs) ==
  IF reqs = <<>> \/ reqs[1].nodes = <<>> THEN 0 ELSE MaxRightOf(reqs[1].nodes, 1)

MaxRight(reqs) ==
  LET metas == AllMetas(reqs, 1)
  IN IF metas = <<>> THEN 0 ELSE MaxRightOf(metas, 1)

FirstAbsY(reqs) ==
  LET metas == AllMetas(reqs, 1)
  IN IF metas = <<>> THEN 0 ELSE metas[1].absoluteY

\* the callback's effect on the document, the cursor and the result array
Accumulate(acc, r) ==
  [d |-> r.d, placementY |-> r.placementY, results |-> Append(acc.results, r.result)]

\* requests.map(...): acc = [d, placementY, results]
RECURSIVE MapRequests(_, _, _, _, _)
MapRequests(acc, reqs, i, maxRight, font) ==
  IF i > Len(reqs) THEN acc
  ELSE MapRequests(Accumulate(acc, ConvertRequest(acc.d, acc.placementY, maxRight,
                                                  reqs[i], font)),
                   reqs, i + 1, maxRight, font)

convertGroups(d, reqs, font) ==
  MapRequests([d |-> d, placementY |-> FirstAbsY(reqs), results |-> <<>>],
              reqs, 1, MaxRight(reqs), font)

\* the UI turns every checked group into a request
RequestOf(group) ==
  [fingerprint |-> group.fingerprint,
   nodeIds |-> Tup([i \in 1..Len(group.nodes) |-> group.nodes[i].id]),
   nodes |-> group.nodes,
   diffs |-> group.diffs]

(***************************************************************************)
(* The documents the engine is run on.                                     *)
(*                                                                         *)
(*   page                                                                  *)
(*    +- P (FRAME | COMPONENT | INSTANCE)  holds card M1, card M2 and a    *)
(*    |                                     plain rectangle, in some order *)
(*    +- Q (FRAME)  holds card M3, two zero-height groups and a chip       *)
(*    +- chip                                                              *)
(*    +- a chain of nested frames with a leaf five levels down             *)
(***************************************************************************)
Solid(r, b) == [type |-> "SOLID", r |-> r, g |-> 0, b |-> b, opacity |-> 1000]
Gradient == [type |-> "GRADIENT_LINEAR", r |-> 0, g |-> 0, b |-> 0, opacity |-> 1000]

MasterFills == <<Solid(1000, 0)>>
FillChoices ==
  { <<Solid(1000, 0)>>,                \* equal to the master's
    <<Solid(995, 0)>>,                 \* within the tolerance
    <<Solid(0, 1000)>>,                \* another colour
    <<Solid(1000, 0), Solid(0, 1000)>>,\* one more paint
    <<Gradient>>,                      \* another paint type
    <<>> }                             \* no paint at all

AddNode(d, par, rec) ==
  LET id == Len(d) + 1
  IN [Append(d, [rec EXCEPT !.parent = par]) EXCEPT ![par].kids = Append(@, id)]

AddCard(d, par, t, x, y, w, chars, fills, swap) ==
  LET card == Len(d) + 1
      d1 == AddNode(d, par, [NewNode(t, "card", x, y, w, 40)
                               EXCEPT !.fills = IF t = "FRAME" THEN fills ELSE <<>>])
      label == [NewNode("TEXT", "label", 4, 4, 60, 16) EXCEPT !.chars = chars]
      bg == NewNode("RECTANGLE", "bg", 0, 0, w, 40)
  IN IF swap THEN AddNode(AddNode(d1, card, bg), card, label)
             ELSE AddNode(AddNode(d1, card, label), card, bg)

AddRule(d, par, y) ==
  LET g == Len(d) + 1
  IN AddNode(AddNode(d, par, NewNode("GROUP", "rule", 0, y, 50, 0)),
             g, NewNode("LINE", "line", 0, 0, 50, 0))

AddChip(d, par, x, y) ==
  LET f == Len(d) + 1
  IN AddNode(AddNode(d, par, NewNode("FRAME", "chip", x, y, 30, 30)),
             f, NewNode("ELLIPSE", "dot", 10, 10, 10, 10))

RECURSIVE AddChain(_, _, _, _)
AddChain(d, par, size, levels) ==
  IF levels = 0 THEN AddNode(d, par, NewNode("RECTANGLE", "leaf", 0, 0, 8, 8))
  ELSE LET f == Len(d) + 1
           d1 == AddNode(d, par, NewNode("FRAME", "level", 0, 0, size, size))
           d2 == IF levels = 3
                 THEN AddNode(d1, f, [NewNode("TEXT", "note", 0, 0, 12, 12) EXCEPT !.chars = "A"])
                 ELSE d1
       IN AddChain(d2, f, size - 4, levels - 1)

ChainLevels == 5

Build(p) ==
  LET d0 == <<NewNode("PAGE", "Page 1", 0, 0, 0, 0)>>
      P == Len(d0) + 1
      d1 == AddNode(d0, Page, NewNode(p.ptype, "hero", 10, 20, 400, 300))
      m1(d) == AddCard(d, P, p.mtype, 0, 0, 80, "A", MasterFills, FALSE)
      m2(d) == AddCard(d, P, p.mtype, 0, 50, p.w2, p.c2, p.f2, p.swap)
      sb(d) == AddNode(d, P, NewNode("RECTANGLE", "photo", 100, 0, 20, 20))
      d2 == CASE p.order = 1 -> m2(sb(m1(d1)))
              [] p.order = 2 -> m2(m1(sb(d1)))
              [] p.order = 3 -> sb(m2(m1(d1)))
      Q == Len(d2) + 1
      d3 == AddNode(d2, Page, NewNode("FRAME", "list", 500, 10, 300, 300))
      d4 == AddCard(d3, Q, p.mtype, 0, 0, 80, "A", MasterFills, FALSE)
      d5 == AddRule(AddRule(d4, Q, 100), Q, 120)
      d6 == AddChip(AddChip(d5, Q, 200, 0), Page, 0, 350)
  IN AddChain(d6, Page, 64, ChainLevels)

AllParams ==
  { p \in [ptype : {"FRAME", "COMPONENT", "INSTANCE"},
           order : 1..3,
           mtype : {"FRAME", "GROUP"},
           w2    : {80, 81, 83},
           swap  : BOOLEAN,
           c2    : {"A", "B"},
           f2    : FillChoices] :
      p.mtype = "GROUP" => p.f2 = <<>> }

\* the documents conversions are run on: every placement of the cards
\* with equal content, and every content of M2 in one placement
PlacementParams ==
  { p \in AllParams : p.w2 = 80 /\ ~ p.swap /\ p.c2 = "A"
                      /\ p.f2 \in {MasterFills, <<>>} }
ContentParams ==
  { p \in AllParams : p.ptype = "FRAME" /\ p.order = 2 /\ p.mtype = "FRAME"
                      /\ p.w2 \in {80, 83} /\ (p.w2 = 83 => ~ p.swap /\ p.c2 = "A" /\ p.f2 = MasterFills) }

Params == PlacementParams \cup ContentParams

\* no layout analysis is running
LayoutIdle ==
  /\ tree = <<>>
  /\ stored = <<>>
  /\ config = <<>>
  /\ issues = <<>>
  /\ fixes = <<>>

Init ==
  /\ doc \in {Build(p) : p \in Params}
  /\ fontLoaded \in BOOLEAN
  /\ phase = "idle"
  /\ includeProt = FALSE
  /\ groups = <<>>
  /\ visited = {}
  /\ edits = 0
  /\ pre = <<>>
  /\ requests = <<>>
  /\ results = <<>>
  /\ LayoutIdle
  /\ combine = <<>>
  /\ calls = <<>>
  /\ pcs = <<>>
  /\ resizePins = FALSE

(***************************************************************************)
(* scanComponentCandidates(pages, includeProtected)                        *)
(***************************************************************************)
Scan ==
  /\ phase \in {"idle", "retyped"}
  /\ \E ip \in BOOLEAN :
       \E unsorted \in {UnsortedGroups(doc, ip)} :
         /\ includeProt' = ip
         /\ visited' = VisitedBy(doc, ip)
         /\ \E f \in Permutations(1..Len(unsorted)) :
              \E gs \in {Tup([i \in 1..Len(unsorted) |-> unsorted[f[i]]])} :
                /\ SortedBySize(gs)
                /\ groups' = gs
  /\ phase' = "scanned"
  /\ UNCHANGED <<doc, fontLoaded, edits, pre, requests, results>>
  /\ UNCHANGED <<layoutVars, combine, calls, pcs, resizePins>>

\* the user deletes a node after the scan and before converting
UserDelete ==
  /\ phase = "scanned"
  /\ edits < MaxEdits
  /\ \E g \in 1..Len(groups) : \E k \in 1..Len(groups[g].nodes) :
       LET n == groups[g].nodes[k].id IN
       /\ CanRemove(doc, n)
       /\ doc' = RemoveNode(doc, n)
  /\ edits' = edits + 1
  /\ UNCHANGED <<fontLoaded, phase, includeProt, groups, visited, pre, requests, results>>
  /\ UNCHANGED <<layoutVars, combine, calls, pcs, resizePins>>

\* the checked groups, in list order, go to convertGroups
Convert ==
  /\ phase = "scanned"
  /\ \E sel \in (SUBSET (1..Len(groups))) \ {{}} :
       \E reqs \in {Tup([i \in 1..Cardinality(sel) |->
                           RequestOf(groups[CHOOSE k \in sel :
                                              Cardinality({j \in sel : j < k}) = i - 1])])} :
         \E out \in {convertGroups(doc, reqs, fontLoaded)} :
           /\ requests' = reqs
           /\ pre' = doc
           /\ doc' = out.d
           /\ results' = out.results
  /\ phase' = "converted"
  /\ UNCHANGED <<fontLoaded, includeProt, groups, visited, edits>>
  /\ UNCHANGED <<layoutVars, combine, calls, pcs, resizePins>>

\* the user changes the type of a childless node before scanning
RetypeTypes == {"TEXT", "ELLIPSE", "FRAME"}

Retype(d, n, t) == [d EXCEPT ![n].type = t]

IsLeaf(d, n) == d[n].live /\ d[n].kids = <<>> /\ d[n].type # "PAGE"

UserRetype ==
  /\ phase = "idle"
  /\ \E n \in 1..Len(doc) : \E t \in RetypeTypes :
       /\ IsLeaf(doc, n)
       /\ doc[n].type # t
       /\ doc' = Retype(doc, n, t)
  /\ phase' = "retyped"
  /\ UNCHANGED <<fontLoaded, includeProt, groups, visited, edits, pre, requests, results>>
  /\ UNCHANGED <<layoutVars, combine, calls, pcs, resizePins>>

Next == Scan \/ UserDelete \/ Convert

Spec == Init /\ [][Next]_vars

\* scanning only, on every document of the family
ScanParams ==
  { p \in AllParams : p.order = 1 /\ p.c2 = "A" /\ p.f2 \in {MasterFills, <<>>} }

InitScan ==
  /\ doc \in {Build(p) : p \in ScanParams}
  /\ fontLoaded = TRUE
  /\ phase = "idle"
  /\ includeProt = FALSE
  /\ groups = <<>>
  /\ visited = {}
  /\ edits = 0
  /\ pre = <<>>
  /\ requests = <<>>
  /\ results = <<>>
  /\ LayoutIdle
  /\ combine = <<>>
  /\ calls = <<>>
  /\ pcs = <<>>
  /\ resizePins = FALSE

NextScan == UserRetype \/ Scan

SpecScan == InitScan /\ [][NextScan]_vars

(***************************************************************************)
(* layoutConfig.ts.  Ratios are counted in hundredths.                     *)
(*                                                                         *)
(* A stored (possibly partial) config is a record with some of the fields; *)
(* a field the object does not have is outside its DOMAIN.                 *)
(***************************************************************************)
DEFAULT_LAYOUT_CONFIG ==
  [edgeProximityRatio |-> 15,
   fillRatio          |-> 70,
   fullBleedRatio     |-> 80,
   centerTolerancePx  |-> 6,
   onlyDefaults       |-> FALSE,
   checks |-> [cornerConstraint  |-> TRUE,
               edgeConstraint    |-> TRUE,
               siblingFill       |-> TRUE,
               wideTall          |-> TRUE,
               fullBleed         |-> TRUE,
               centeredNotCenter |-> TRUE]]

SpreadLeft(a, b) ==
  [k \in (DOMAIN a) \cup (DOMAIN b) |-> IF k \in DOMAIN a THEN a[k] ELSE b[k]]

\* { ...a, ...b }: the keys of both, b's value where b has the key
Spread(a, b) ==
  [k \in (DOMAIN a) \cup (DOMAIN b) |-> IF k \in DOMAIN b THEN b[k] ELSE a[k]]

\* stored.checks ?? {}
ChecksOf(s) == IF "checks" \in DOMAIN s THEN s.checks ELSE [k \in {} |-> TRUE]

\* { ...DEFAULT_LAYOUT_CONFIG.checks, ...(stored.checks ?? {}) }
MergeChecks(s) == Spread(DEFAULT_LAYOUT_CONFIG.checks, ChecksOf(s))

mergeWithDefaults(s) ==
  Spread(Spread(DEFAULT_LAYOUT_CONFIG, s), [checks |-> MergeChecks(s)])

\* stored ? mergeWithDefaults(stored) : DEFAULT_LAYOUT_CONFIG
ActiveConfig(st) == IF st # <<>> THEN mergeWithDefaults(st[1]) ELSE DEFAULT_LAYOUT_CONFIG

(***************************************************************************)
(* The texts of LayoutIssue.expected, one character per element, so that   *)
(* the fix engine's parsing of them is computed.                           *)
(***************************************************************************)
Chars(text) ==
  CASE text = "H: RIGHT, V: BOTTOM" ->
         <<"H", ":", " ", "R", "I", "G", "H", "T", ",", " ", "V", ":",
           " ", "B", "O", "T", "T", "O", "M">>
    [] text = "H: RIGHT, V: TOP" ->
         <<"H", ":", " ", "R", "I", "G", "H", "T", ",", " ", "V", ":",
           " ", "T", "O", "P">>
    [] text = "H: LEFT, V: BOTTOM" ->
         <<"H", ":", " ", "L", "E", "F", "T", ",", " ", "V", ":", " ",
           "B", "O", "T", "T", "O", "M">>
    [] text = "H: STRETCH" ->
         <<"H", ":", " ", "S", "T", "R", "E", "T", "C", "H">>
    [] text = "V: STRETCH" ->
         <<"V", ":", " ", "S", "T", "R", "E", "T", "C", "H">>
    [] text = "H: RIGHT" ->
         <<"H", ":", " ", "R", "I", "G", "H", "T">>
    [] text = "V: BOTTOM" ->
         <<"V", ":", " ", "B", "O", "T", "T", "O", "M">>
    [] text = "H: CENTER" ->
         <<"H", ":", " ", "C", "E", "N", "T", "E", "R">>
    [] text = "V: CENTER" ->
         <<"V", ":", " ", "C", "E", "N", "T", "E", "R">>
    [] text = "layoutGrow: 1 (Fill)" ->
         <<"l", "a", "y", "o", "u", "t", "G", "r", "o", "w", ":", " ",
           "1", " ", "(", "F", "i", "l", "l", ")">>
    [] text = "layoutAlign: STRETCH" ->
         <<"l", "a", "y", "o", "u", "t", "A", "l", "i", "g", "n", ":",
           " ", "S", "T", "R", "E", "T", "C", "H">>
    [] text = "H: SCALE or LEFT & RIGHT" ->
         <<"H", ":", " ", "S", "C", "A", "L", "E", " ", "o", "r", " ",
           "L", "E", "F", "T", " ", "&", " ", "R", "I", "G", "H", "T">>
    [] text = "H: SCALE or STRETCH, V: SCALE or STRETCH" ->
         <<"H", ":", " ", "S", "C", "A", "L", "E", " ", "o", "r", " ",
           "S", "T", "R", "E", "T", "C", "H", ",", " ", "V", ":", " ",
           "S", "C", "A", "L", "E", " ", "o", "r", " ", "S", "T", "R",
           "E", "T", "C", "H">>

(***************************************************************************)
(* The layout tree: an arena like the document, with the layout fields.    *)
(*   cons   "constraints" in node         hc, vc   constraints.*           *)
(*   grow   layoutGrow                    align    layoutAlign             *)
(*   mode   layoutMode of a frame         pl..pb   its paddings            *)
(***************************************************************************)
LayoutNode(t, x, y, w, h) ==
  [type |-> t, parent |-> NoNode, kids |-> <<>>,
   x |-> x, y |-> y, w |-> w, h |-> h,
   cons |-> t \notin {"PAGE", "GROUP"}, hc |-> "MIN", vc |-> "MIN",
   grow |-> 0, align |-> "INHERIT",
   mode |-> "NONE", pl |-> 0, pr |-> 0, pt |-> 0, pb |-> 0,
   live |-> TRUE]

\* "layoutMode" in node
HasLayoutMode(t, n) == t[n].type \in {"FRAME", "COMPONENT", "INSTANCE"}

\* "children" in node
HasChildren(t, n) == t[n].type \in ContainerTypes

(***************************************************************************)
(* analyze/layout.ts                                                       *)
(***************************************************************************)
isAutoLayoutChild(t, n) ==
  LET p == t[n].parent
  IN p # NoNode /\ HasLayoutMode(t, p) /\ t[p].mode # "NONE"

\* NoNode stands for null
parentOf(t, n) ==
  LET p == t[n].parent
  IN IF p = NoNode THEN NoNode
     ELSE IF t[p].type \in {"FRAME", "COMPONENT"} THEN p
     ELSE NoNode

innerSize(t, f) ==
  [w  |-> t[f].w - t[f].pl - t[f].pr,
   h  |-> t[f].h - t[f].pt - t[f].pb,
   pl |-> t[f].pl,
   pt |-> t[f].pt]

hConstraint(t, n) == IF t[n].cons THEN t[n].hc ELSE "MIN"

vConstraint(t, n) == IF t[n].cons THEN t[n].vc ELSE "MIN"

layoutGrow(t, n) == t[n].grow

layoutAlign(t, n) == t[n].align

hasDefaultValuesAlways(t, n) == TRUE

hasDefaultValues(t, n) ==
  IF isAutoLayoutChild(t, n)
  THEN layoutGrow(t, n) = 0 /\ layoutAlign(t, n) = "INHERIT"
  ELSE IF t[n].cons THEN t[n].hc = "MIN" /\ t[n].vc = "MIN"
  ELSE TRUE

\* by names the detector that made the issue
LayoutIssue(t, n, par, kind, severity, expected, by) ==
  [nodeId |-> n, nodeType |-> t[n].type, parentId |-> par,
   kind |-> kind, severity |-> severity, expected |-> expected, by |-> by]

\* gap >= 0 && gap < dim * prox
Near(gap, dim, prox) == gap >= 0 /\ 100 * gap < dim * prox

\* the corner cases of detectEdgeConstraintMismatch; <<>> stands for "none"
CornerCases(t, n, par, nearLeft, nearRight, nearTop, nearBottom) ==
  LET hc == hConstraint(t, n)
      vc == vConstraint(t, n)
  IN IF nearRight /\ nearBottom /\ hc # "MAX" /\ vc # "MAX"
     THEN <<LayoutIssue(t, n, par, "corner_constraint_mismatch", "high",
                        Chars("H: RIGHT, V: BOTTOM"), "edge")>>
     ELSE IF nearRight /\ nearTop /\ hc # "MAX" /\ vc # "MIN"
     THEN <<LayoutIssue(t, n, par, "corner_constraint_mismatch", "high",
                        Chars("H: RIGHT, V: TOP"), "edge")>>
     ELSE IF nearLeft /\ nearBottom /\ hc # "MIN" /\ vc # "MAX"
     THEN <<LayoutIssue(t, n, par, "corner_constraint_mismatch", "high",
                        Chars("H: LEFT, V: BOTTOM"), "edge")>>
     ELSE <<>>

\* the both-edges and single-edge cases of detectEdgeConstraintMismatch
EdgeCases(t, n, par, nearLeft, nearRight, nearTop, nearBottom) ==
  LET hc == hConstraint(t, n)
      vc == vConstraint(t, n)
  IN IF nearLeft /\ nearRight /\ hc # "STRETCH" /\ hc # "SCALE"
     THEN <<LayoutIssue(t, n, par, "both_edges_not_stretch", "high", Chars("H: STRETCH"), "edge")>>
     ELSE IF nearTop /\ nearBottom /\ vc # "STRETCH" /\ vc # "SCALE"
     THEN <<LayoutIssue(t, n, par, "both_edges_not_stretch", "high", Chars("V: STRETCH"), "edge")>>
     ELSE IF nearRight /\ ~ nearLeft /\ hc # "MAX" /\ hc # "STRETCH"
     THEN <<LayoutIssue(t, n, par, "edge_constraint_mismatch", "high", Chars("H: RIGHT"), "edge")>>
     ELSE IF nearBottom /\ ~ nearTop /\ vc # "MAX" /\ vc # "STRETCH"
     THEN <<LayoutIssue(t, n, par, "edge_constraint_mismatch", "high", Chars("V: BOTTOM"), "edge")>>
     ELSE <<>>

detectEdgeConstraintMismatch(t, n, par, cfg) ==
  LET inner == innerSize(t, par)
      nx == t[n].x - inner.pl
      ny == t[n].y - inner.pt
      prox == cfg.edgeProximityRatio
      nearLeft   == Near(nx, inner.w, prox)
      nearRight  == Near(inner.w - (nx + t[n].w), inner.w, prox)
      nearTop    == Near(ny, inner.h, prox)
      nearBottom == Near(inner.h - (ny + t[n].h), inner.h, prox)
      corner == IF cfg.checks.cornerConstraint
                THEN CornerCases(t, n, par, nearLeft, nearRight, nearTop, nearBottom)
                ELSE <<>>
  IN IF ~ cfg.checks.cornerConstraint /\ ~ cfg.checks.edgeConstraint THEN <<>>
     ELSE IF isAutoLayoutChild(t, n) THEN <<>>
     ELSE IF ~ t[n].cons THEN <<>>
     ELSE IF inner.w <= 0 \/ inner.h <= 0 THEN <<>>
     ELSE IF corner # <<>> THEN corner
     ELSE IF cfg.checks.edgeConstraint
     THEN EdgeCases(t, n, par, nearLeft, nearRight, nearTop, nearBottom)
     ELSE <<>>

detectWideNotFill(t, n, par, cfg) ==
  LET pw == innerSize(t, par).w
  IN IF ~ cfg.checks.wideTall THEN <<>>
     ELSE IF pw <= 0 THEN <<>>
     ELSE IF 100 * t[n].w < cfg.fillRatio * pw THEN <<>>
     ELSE IF isAutoLayoutChild(t, n)
     THEN IF t[par].mode = "HORIZONTAL" /\ layoutGrow(t, n) = 0
          THEN <<LayoutIssue(t, n, par, "wide_not_fill", "medium", Chars("layoutGrow: 1 (Fill)"), "wide")>>
          ELSE IF t[par].mode = "VERTICAL" /\ layoutAlign(t, n) # "STRETCH"
          THEN <<LayoutIssue(t, n, par, "wide_not_fill", "medium", Chars("layoutAlign: STRETCH"), "wide")>>
          ELSE <<>>
     ELSE IF hConstraint(t, n) # "STRETCH" /\ hConstraint(t, n) # "SCALE"
     THEN <<LayoutIssue(t, n, par, "wide_not_fill", "medium", Chars("H: SCALE or LEFT & RIGHT"), "wide")>>
     ELSE <<>>

CenteredBoth(hIssue, vIssue, hHit, vHit) ==
  (IF hHit THEN hIssue ELSE <<>>) \o (IF vHit THEN vIssue ELSE <<>>)

\* the horizontal case returns before the vertical one is looked at
CenteredFirst(hIssue, vIssue, hHit, vHit) ==
  IF hHit THEN hIssue ELSE IF vHit THEN vIssue ELSE <<>>

detectCenteredNotCenter(t, n, par, cfg) ==
  LET inner == innerSize(t, par)
      nx == t[n].x - inner.pl
      ny == t[n].y - inner.pt
      hc == hConstraint(t, n)
      vc == vConstraint(t, n)
      tol == cfg.centerTolerancePx
      \* |nx + nw/2 - pw/2| <= tol, doubled
      hHit == /\ Abs(2 * nx + t[n].w - inner.w) <= 2 * tol
              /\ hc \notin {"CENTER", "STRETCH", "SCALE"}
      vHit == /\ Abs(2 * ny + t[n].h - inner.h) <= 2 * tol
              /\ vc \notin {"CENTER", "STRETCH", "SCALE"}
  IN IF ~ cfg.checks.centeredNotCenter THEN <<>>
     ELSE IF isAutoLayoutChild(t, n) THEN <<>>
     ELSE IF ~ t[n].cons THEN <<>>
     ELSE IF inner.w <= 0 \/ inner.h <= 0 THEN <<>>
     ELSE CenteredFirst(
            <<LayoutIssue(t, n, par, "centered_h_not_center", "medium", Chars("H: CENTER"), "centered")>>,
            <<LayoutIssue(t, n, par, "centered_v_not_center", "medium", Chars("V: CENTER"), "centered")>>,
            hHit, vHit)

detectFullBleedNotStretch(t, n, par, cfg) ==
  LET inner == innerSize(t, par)
      ratio == cfg.fullBleedRatio
      hc == hConstraint(t, n)
      vc == vConstraint(t, n)
  IN IF ~ cfg.checks.fullBleed THEN <<>>
     ELSE IF isAutoLayoutChild(t, n) THEN <<>>
     ELSE IF ~ t[n].cons THEN <<>>
     ELSE IF inner.w <= 0 \/ inner.h <= 0 THEN <<>>
     ELSE IF 100 * t[n].w < ratio * inner.w \/ 100 * t[n].h < ratio * inner.h THEN <<>>
     ELSE IF hc \in {"STRETCH", "SCALE"} /\ vc \in {"STRETCH", "SCALE"} THEN <<>>
     ELSE <<LayoutIssue(t, n, par, "full_bleed_not_stretch", "medium",
                        Chars("H: SCALE or STRETCH, V: SCALE or STRETCH"), "fullBleed")>>

RECURSIVE SumWidths(_, _)
SumWidths(t, cs) == IF cs = <<>> THEN 0 ELSE t[Head(cs)].w + SumWidths(t, Tail(cs))

\* Math.max(...children.map(c => c.width)) of a non-empty list
RECURSIVE MaxWidth(_, _)
MaxWidth(t, cs) ==
  IF Len(cs) = 1 THEN t[cs[1]].w ELSE Max(t[Head(cs)].w, MaxWidth(t, Tail(cs)))

\* is child c of the row reported by detectSiblingFillCandidate
SiblingHit(t, children, c, cfg) ==
  LET totalWidth == SumWidths(t, children)
      maxWidth == MaxWidth(t, children)
  IN /\ t[c].w = maxWidth
     /\ ~ (2 * t[c].w < totalWidth)            \* width / totalWidth < 0.50
     /\ layoutGrow(t, c) = 0
     /\ ~ (cfg.onlyDefaults /\ ~ hasDefaultValues(t, c))
     /\ \E k \in Range(children) : k # c /\ 10 * t[k].w < 6 * t[c].w

detectSiblingFillCandidate(t, par, cfg) ==
  LET children == SelectSeq(t[par].kids,
                            LAMBDA c : t[c].type \notin {"VECTOR", "BOOLEAN_OPERATION"})
      hits == SelectSeq(children, LAMBDA c : SiblingHit(t, children, c, cfg))
  IN IF ~ cfg.checks.siblingFill THEN <<>>
     ELSE IF ~ HasLayoutMode(t, par) THEN <<>>
     ELSE IF t[par].mode # "HORIZONTAL" THEN <<>>
     ELSE IF Len(t[par].kids) < 2 THEN <<>>
     ELSE IF Len(children) < 2 THEN <<>>
     ELSE Tup([i \in 1..Len(hits) |->
                 LayoutIssue(t, hits[i], par, "sibling_fill_candidate", "high",
                             Chars("layoutGrow: 1 (Fill)"), "sibling")])

\* the scan state: the issues pushed and the seen-set of <<nodeId, kind>>
NoIssues == [issues |-> <<>>, seen |-> {}]

addIfNew(st, issue) ==
  IF <<issue.nodeId, issue.kind>> \in st.seen THEN st
  ELSE [issues |-> Append(st.issues, issue),
        seen |-> st.seen \cup {<<issue.nodeId, issue.kind>>}]

\* addIfNew of what a detector returned (nothing for null)
RECURSIVE AddAll(_, _)
AddAll(st, found) ==
  IF found = <<>> THEN st ELSE AddAll(addIfNew(st, Head(found)), Tail(found))

\* the four per-node detectors, in call order
PerNode(t, n, par, cfg, st) ==
  AddAll(AddAll(AddAll(AddAll(st,
    detectEdgeConstraintMismatch(t, n, par, cfg)),
    detectWideNotFill(t, n, par, cfg)),
    detectCenteredNotCenter(t, n, par, cfg)),
    detectFullBleedNotStretch(t, n, par, cfg))

RECURSIVE scanLayoutNode(_, _, _, _)
RECURSIVE scanLayoutKids(_, _, _, _, _)
scanLayoutNode(t, n, cfg, st) ==
  IF t[n].type = "PAGE" THEN scanLayoutKids(t, t[n].kids, 1, cfg, st)
  ELSE LET par == parentOf(t, n)
           st1 == IF par # NoNode /\ ~ (cfg.onlyDefaults /\ ~ hasDefaultValues(t, n))
                  THEN PerNode(t, n, par, cfg, st)
                  ELSE st
           st2 == IF t[n].type \in {"FRAME", "COMPONENT"}
                  THEN AddAll(st1, detectSiblingFillCandidate(t, n, cfg))
                  ELSE st1
       IN IF HasChildren(t, n) THEN scanLayoutKids(t, t[n].kids, 1, cfg, st2) ELSE st2
scanLayoutKids(t, ks, i, cfg, st) ==
  IF i > Len(ks) THEN st
  ELSE scanLayoutKids(t, ks, i + 1, cfg, scanLayoutNode(t, ks[i], cfg, st))

checkLayout(t, pages, cfg) == scanLayoutKids(t, pages, 1, cfg, NoIssues).issues

(***************************************************************************)
(* The trees the layout analysis is run on.                                *)
(*                                                                         *)
(*   page                                                                  *)
(*    +- screen (FRAME 200x100, any layout mode, padding 0 or 10)          *)
(*        +- A      RECTANGLE: the placement and the settings vary         *)
(*        +- B      RECTANGLE 20x20 near the bottom, default settings      *)
(*        +- G      GROUP 150x10 (a node without constraints)              *)
(*        |   +- a rectangle                                               *)
(*        +- row    FRAME 80x30, horizontal auto-layout                    *)
(*            +- cell  FRAME 50x20, horizontal auto-layout                 *)
(*            |   +- a 30x10 and a 10x10 rectangle                         *)
(*            +- a 20x20 rectangle                                         *)
(***************************************************************************)
AddLayoutNode(t, par, rec) ==
  LET id == Len(t) + 1
  IN [Append(t, [rec EXCEPT !.parent = par]) EXCEPT ![par].kids = Append(@, id)]

ConstraintTypes == {"MIN", "CENTER", "MAX", "STRETCH", "SCALE"}

\* the ids the nodes get in BuildTree
Screen == Page + 1
NodeA == Screen + 1
NodeB == NodeA + 1
NodeG == NodeB + 1
NodeRow == NodeG + 2
NodeCell == NodeRow + 1

Places ==
  { [x |-> 170, y |-> 75, w |-> 25,  h |-> 20],    \* bottom-right corner
    [x |-> 170, y |-> 12, w |-> 25,  h |-> 20],    \* top-right corner
    [x |-> 12,  y |-> 75, w |-> 25,  h |-> 20],    \* bottom-left corner
    [x |-> 12,  y |-> 12, w |-> 25,  h |-> 20],    \* top-left corner
    [x |-> 170, y |-> 40, w |-> 25,  h |-> 20],    \* right edge only
    [x |-> 60,  y |-> 75, w |-> 25,  h |-> 20],    \* bottom edge only
    [x |-> 90,  y |-> 40, w |-> 20,  h |-> 20],    \* centred
    [x |-> 25,  y |-> 40, w |-> 150, h |-> 20],    \* wide, near both sides
    [x |-> 60,  y |-> 30, w |-> 20,  h |-> 60],    \* tall
    [x |-> 5,   y |-> 5,  w |-> 190, h |-> 90] }   \* full bleed

BuildTree(p) ==
  LET t0 == <<LayoutNode("PAGE", 0, 0, 0, 0)>>
      t1 == AddLayoutNode(t0, Page,
              [LayoutNode("FRAME", 0, 0, 200, 100)
                 EXCEPT !.mode = p.mode,
                        !.pl = p.pad, !.pr = p.pad, !.pt = p.pad, !.pb = p.pad])
      t2 == AddLayoutNode(t1, Screen,
              [LayoutNode("RECTANGLE", p.place.x, p.place.y, p.place.w, p.place.h)
                 EXCEPT !.hc = p.hc, !.vc = p.vc, !.grow = p.grow, !.align = p.align])
      t3 == AddLayoutNode(t2, Screen, LayoutNode("RECTANGLE", 40, 70, 20, 20))
      t4 == AddLayoutNode(t3, Screen, LayoutNode("GROUP", 10, 45, 150, 10))
      t5 == AddLayoutNode(t4, NodeG, LayoutNode("RECTANGLE", 0, 0, 150, 10))
      t6 == AddLayoutNode(t5, Screen,
              [LayoutNode("FRAME", 60, 5, 80, 30) EXCEPT !.mode = "HORIZONTAL"])
      t7 == AddLayoutNode(t6, NodeRow,
              [LayoutNode("FRAME", 0, 0, 50, 20)
                 EXCEPT !.mode = "HORIZONTAL", !.align = p.align])
      t8 == AddLayoutNode(t7, NodeRow, LayoutNode("RECTANGLE", 50, 0, 20, 20))
      t9 == AddLayoutNode(t8, NodeCell, LayoutNode("RECTANGLE", 0, 0, 30, 10))
  IN AddLayoutNode(t9, NodeCell, LayoutNode("RECTANGLE", 30, 0, 10, 10))

\* a child of a frame without auto-layout keeps layoutGrow 0 / INHERIT
TreeParams ==
  { p \in [mode : {"NONE", "HORIZONTAL", "VERTICAL"}, pad : {0, 10},
           place : Places, hc : ConstraintTypes, vc : ConstraintTypes,
           grow : {0, 1}, align : {"INHERIT", "STRETCH"}] :
      /\ p.mode = "NONE" => p.grow = 0
      /\ p.mode # "NONE" => p.hc \in {"MIN", "MAX"} /\ p.vc = "MIN" }

\* what clientStorage may hold: configs saved by this or an older version
PartialConfigs ==
  { [k \in {} |-> TRUE],
    [onlyDefaults |-> TRUE],
    [edgeProximityRatio |-> 30, fillRatio |-> 90],
    [checks |-> [cornerConstraint |-> FALSE]],
    [centerTolerancePx |-> 2, onlyDefaults |-> TRUE,
     checks |-> [edgeConstraint |-> FALSE, wideTall |-> TRUE, fullBleed |-> FALSE]],
    [DEFAULT_LAYOUT_CONFIG EXCEPT !.fullBleedRatio = 50, !.checks.siblingFill = FALSE] }

engineVars == <<doc, fontLoaded, phase, includeProt, groups, visited, edits, pre,
                requests, results>>

\* no scan or conversion is running
EngineIdle ==
  /\ doc = <<>>
  /\ fontLoaded = TRUE
  /\ phase = "idle"
  /\ includeProt = FALSE
  /\ groups = <<>>
  /\ visited = {}
  /\ edits = 0
  /\ pre = <<>>
  /\ requests = <<>>
  /\ results = <<>>

InitLayout ==
  /\ EngineIdle
  /\ combine = <<>>
  /\ calls = <<>>
  /\ pcs = <<>>
  /\ resizePins = FALSE
  /\ tree \in {BuildTree(p) : p \in TreeParams}
  /\ stored \in {<<>>} \cup {<<c>> : c \in PartialConfigs}
  /\ config = <<>>
  /\ issues = <<>>
  /\ fixes = <<>>

\* main.ts "analyzeLayout"
AnalyzeLayout ==
  /\ tree # <<>>
  /\ \E cfg \in {ActiveConfig(stored)} :
       /\ config' = <<cfg>>
       /\ issues' = checkLayout(tree, <<Page>>, cfg)
  /\ UNCHANGED <<tree, stored, fixes, engineVars, combine, calls, pcs, resizePins>>

\* main.ts "saveLayoutConfig": msg.config ?? {} is merged and stored
SaveLayoutConfig ==
  /\ tree # <<>>
  /\ \E c \in PartialConfigs : stored' = <<mergeWithDefaults(c)>>
  /\ UNCHANGED <<tree, config, issues, fixes, engineVars, combine, calls, pcs, resizePins>>

\* main.ts "resetLayoutConfig"
ResetLayoutConfig ==
  /\ tree # <<>>
  /\ stored' = <<DEFAULT_LAYOUT_CONFIG>>
  /\ UNCHANGED <<tree, config, issues, fixes, engineVars, combine, calls, pcs, resizePins>>

NextLayout == AnalyzeLayout \/ SaveLayoutConfig \/ ResetLayoutConfig

SpecLayout == InitLayout /\ [][NextLayout]_vars

(***************************************************************************)
(* apply/layoutFix.ts: the string functions the fix handlers use.          *)
(***************************************************************************)
\* String.prototype.startsWith
StartsWith(s, p) == Len(s) >= Len(p) /\ SubSeq(s, 1, Len(p)) = p

\* String.prototype.indexOf, 1-based, 0 when absent
IndexOfText(s, p) ==
  LET hits == {i \in 1..(Len(s) - Len(p) + 1) : SubSeq(s, i, i + Len(p) - 1) = p}
  IN IF hits = {} THEN 0 ELSE CHOOSE i \in hits : \A j \in hits : i <= j

\* String.prototype.includes
Includes(s, p) == IndexOfText(s, p) # 0

ReplaceNone(s, p, r) == s

\* String.prototype.replace(string, string): the first occurrence only
ReplaceFirst(s, p, r) ==
  LET i == IndexOfText(s, p)
  IN IF i = 0 THEN s
     ELSE SubSeq(s, 1, i - 1) \o r \o SubSeq(s, i + Len(p), Len(s))

\* String.prototype.trim
RECURSIVE Trim(_)
Trim(s) ==
  IF s = <<>> THEN s
  ELSE IF Head(s) = " " THEN Trim(Tail(s))
  ELSE IF s[Len(s)] = " " THEN Trim(SubSeq(s, 1, Len(s) - 1))
  ELSE s

LowerCase ==
  <<"a", "b", "c", "d", "e", "f", "g", "h", "i", "j", "k", "l", "m",
    "n", "o", "p", "q", "r", "s", "t", "u", "v", "w", "x", "y", "z">>
UpperCase ==
  <<"A", "B", "C", "D", "E", "F", "G", "H", "I", "J", "K", "L", "M",
    "N", "O", "P", "Q", "R", "S", "T", "U", "V", "W", "X", "Y", "Z">>

\* String.prototype.toUpperCase
ToUpperCase(s) ==
  Tup([i \in 1..Len(s) |->
         IF s[i] \in Range(LowerCase)
         THEN UpperCase[CHOOSE k \in 1..Len(LowerCase) : LowerCase[k] = s[i]]
         ELSE s[i]])

\* the text of a ConstraintType
ConstraintText(c) ==
  CASE c = "MIN"     -> <<"M", "I", "N">>
    [] c = "CENTER"  -> <<"C", "E", "N", "T", "E", "R">>
    [] c = "MAX"     -> <<"M", "A", "X">>
    [] c = "STRETCH" -> <<"S", "T", "R", "E", "T", "C", "H">>
    [] c = "SCALE"   -> <<"S", "C", "A", "L", "E">>

parseConstraintValue(raw) ==
  LET val == ToUpperCase(Trim(raw))
  IN IF \E c \in ConstraintTypes : ConstraintText(c) = val
     THEN CHOOSE c \in ConstraintTypes : ConstraintText(c) = val
     ELSE IF val = <<"L", "E", "F", "T">> \/ val = <<"T", "O", "P">> THEN "MIN"
     ELSE IF val = <<"R", "I", "G", "H", "T">> \/ val = <<"B", "O", "T", "T", "O", "M">>
     THEN "MAX"
     ELSE "MIN"

\* the first position at or after i that holds no white space
RECURSIVE SkipSpaces(_, _)
SkipSpaces(s, i) == IF i <= Len(s) /\ s[i] = " " THEN SkipSpaces(s, i + 1) ELSE i

\* the longest run of characters of [A-Z_] that starts at i
RECURSIVE UpperRun(_, _)
UpperRun(s, i) ==
  IF i <= Len(s) /\ s[i] \in Range(UpperCase) \cup {"_"} THEN <<s[i]>> \o UpperRun(s, i + 1) ELSE <<>>

\* expected.match(/<axis>:\s*([A-Z_]+)/): <<capture>> of the leftmost match,
\* <<>> for null
MatchAxis(s, axis) ==
  LET p == <<axis, ":">>
      starts == {i \in 1..(Len(s) - 1) :
                   /\ SubSeq(s, i, i + 1) = p
                   /\ UpperRun(s, SkipSpaces(s, i + 2)) # <<>>}
  IN IF starts = {} THEN <<>>
     ELSE LET i == CHOOSE a \in starts : \A b \in starts : a <= b
          IN <<UpperRun(s, SkipSpaces(s, i + 2))>>

parseExpectedConstraints(expected) ==
  LET hMatch == MatchAxis(expected, "H")
      vMatch == MatchAxis(expected, "V")
  IN [h |-> IF hMatch # <<>> THEN parseConstraintValue(hMatch[1]) ELSE "MIN",
      v |-> IF vMatch # <<>> THEN parseConstraintValue(vMatch[1]) ELSE "MIN"]

(***************************************************************************)
(* apply/layoutFix.ts: FIX_MAP.  A handler returns the tree it leaves and  *)
(* ok = FALSE when it throws.                                              *)
(***************************************************************************)
Thrown(t) == [ok |-> FALSE, t |-> t]

Fixed(t) == [ok |-> TRUE, t |-> t]

\* frame.constraints = { horizontal, vertical }
SetConstraints(t, n, h, v) == [t EXCEPT ![n].hc = h, ![n].vc = v]

BumpLayoutGrow(t, n) == [t EXCEPT ![n].grow = @ + 1]

\* node.layoutGrow = 1
SetLayoutGrow(t, n) == [t EXCEPT ![n].grow = 1]

\* node.layoutAlign = "STRETCH"
SetLayoutAlign(t, n) == [t EXCEPT ![n].align = "STRETCH"]

FixCorner(t, n, issue) ==
  IF ~ t[n].cons THEN Thrown(t)
  ELSE LET c == parseExpectedConstraints(issue.expected)
       IN Fixed(SetConstraints(t, n, c.h, c.v))

FixEdge(t, n, issue) ==
  LET expected == issue.expected
      H == <<"H", ":">>
      V == <<"V", ":">>
  IN IF ~ t[n].cons THEN Thrown(t)
     ELSE IF StartsWith(expected, H)
     THEN Fixed(SetConstraints(t, n,
                  parseConstraintValue(Trim(ReplaceFirst(expected, H, <<>>))), t[n].vc))
     ELSE IF StartsWith(expected, V)
     THEN Fixed(SetConstraints(t, n, t[n].hc,
                  parseConstraintValue(Trim(ReplaceFirst(expected, V, <<>>)))))
     ELSE Fixed(SetConstraints(t, n, t[n].hc, t[n].vc))

FixBothEdges(t, n, issue) ==
  IF ~ t[n].cons THEN Thrown(t)
  ELSE IF StartsWith(issue.expected, <<"H", ":">>)
  THEN Fixed(SetConstraints(t, n, "STRETCH", t[n].vc))
  ELSE IF StartsWith(issue.expected, <<"V", ":">>)
  THEN Fixed(SetConstraints(t, n, t[n].hc, "STRETCH"))
  ELSE Fixed(SetConstraints(t, n, t[n].hc, t[n].vc))

\* wide_not_fill (axis "H") and tall_not_fill (axis "V")
FixNotFill(t, n, issue, axis) ==
  IF Includes(issue.expected, <<"l", "a", "y", "o", "u", "t", "G", "r", "o", "w">>)
  THEN Fixed(SetLayoutGrow(t, n))
  ELSE IF Includes(issue.expected, <<"l", "a", "y", "o", "u", "t", "A", "l", "i", "g", "n">>)
  THEN Fixed(SetLayoutAlign(t, n))
  ELSE IF t[n].cons
  THEN Fixed(IF axis = "H" THEN SetConstraints(t, n, "STRETCH", t[n].vc)
                           ELSE SetConstraints(t, n, t[n].hc, "STRETCH"))
  ELSE Thrown(t)

FixCentered(t, n, axis) ==
  IF ~ t[n].cons THEN Thrown(t)
  ELSE Fixed(IF axis = "H" THEN SetConstraints(t, n, "CENTER", t[n].vc)
                           ELSE SetConstraints(t, n, t[n].hc, "CENTER"))

FixFullBleed(t, n) ==
  IF ~ t[n].cons THEN Thrown(t) ELSE Fixed(SetConstraints(t, n, "SCALE", "SCALE"))

LayoutIssueKinds ==
  {"corner_constraint_mismatch", "edge_constraint_mismatch", "both_edges_not_stretch",
   "wide_not_fill", "tall_not_fill", "centered_h_not_center", "centered_v_not_center",
   "sibling_fill_candidate", "full_bleed_not_stretch"}

FIX_MAP(t, n, issue) ==
  CASE issue.kind = "corner_constraint_mismatch" -> FixCorner(t, n, issue)
    [] issue.kind = "edge_constraint_mismatch"   -> FixEdge(t, n, issue)
    [] issue.kind = "both_edges_not_stretch"     -> FixBothEdges(t, n, issue)
    [] issue.kind = "wide_not_fill"              -> FixNotFill(t, n, issue, "H")
    [] issue.kind = "tall_not_fill"              -> FixNotFill(t, n, issue, "V")
    [] issue.kind = "centered_h_not_center"      -> FixCentered(t, n, "H")
    [] issue.kind = "centered_v_not_center"      -> FixCentered(t, n, "V")
    [] issue.kind = "sibling_fill_candidate"     -> Fixed(SetLayoutGrow(t, n))
    [] issue.kind = "full_bleed_not_stretch"     -> FixFullBleed(t, n)

\* figma.getNodeById on the layout tree
GetLayoutNodeById(t, id) == IF id \in 1..Len(t) /\ t[id].live THEN id ELSE NoNode

LayoutFixResult(issue, success) ==
  [nodeId |-> issue.nodeId, kind |-> issue.kind, success |-> success]

\* the tree fixLayoutIssue leaves, and its result
fixLayoutIssue(t, issue) ==
  LET node == GetLayoutNodeById(t, issue.nodeId)
  IN IF node = NoNode THEN [t |-> t, result |-> LayoutFixResult(issue, FALSE)]
     ELSE IF issue.kind \notin LayoutIssueKinds
     THEN [t |-> t, result |-> LayoutFixResult(issue, FALSE)]
     ELSE LET out == FIX_MAP(t, node, issue)
          IN [t |-> out.t, result |-> LayoutFixResult(issue, out.ok)]

FixNextUnlessFailed(acc, issue) ==
  IF \E i \in 1..Len(acc.results) : ~ acc.results[i].success THEN acc
  ELSE LET r == fixLayoutIssue(acc.t, issue)
       IN [t |-> r.t, results |-> Append(acc.results, r.result)]

\* one round of issues.map(issue => fixLayoutIssue(issue))
FixNext(acc, issue) ==
  LET r == fixLayoutIssue(acc.t, issue)
  IN [t |-> r.t, results |-> Append(acc.results, r.result)]

RECURSIVE FixFrom(_, _)
FixFrom(acc, todo) ==
  IF todo = <<>> THEN acc ELSE FixFrom(FixNext(acc, Head(todo)), Tail(todo))

\* the tree fixAllLayoutIssues leaves, and its results
fixAllLayoutIssues(t, todo) == FixFrom([t |-> t, results |-> <<>>], todo)

(***************************************************************************)
(* Fixing: the issues of an analysis are sent back one at a time or as a   *)
(* batch; the user may have removed a node in between.                     *)
(***************************************************************************)
MaxFixes == 2
MaxBatch == 3

V_SCALE_OR_TOP_BOTTOM ==
  <<"V", ":", " ", "S", "C", "A", "L", "E", " ", "o", "r", " ",
    "T", "O", "P", " ", "&", " ", "B", "O", "T", "T", "O", "M">>

\* LayoutIssue values of the kind no detector returns
TallIssues(t) ==
  { LayoutIssue(t, NodeA, Screen, "tall_not_fill", "medium", V_SCALE_OR_TOP_BOTTOM, "none"),
    LayoutIssue(t, NodeA, Screen, "tall_not_fill", "medium", Chars("layoutAlign: STRETCH"), "none"),
    LayoutIssue(t, NodeG, Screen, "tall_not_fill", "medium", V_SCALE_OR_TOP_BOTTOM, "none") }

\* the trees fixes are run on: every placement of A with the default
\* settings in a plain frame, the wide and the tall one in auto-layout too
FixParams ==
  { p \in TreeParams :
      /\ p.pad = 0 /\ p.hc = "MIN" /\ p.vc = "MIN" /\ p.grow = 0 /\ p.align = "INHERIT"
      /\ p.mode # "NONE" => p.place.w = 150 \/ p.place.h = 60 }

InitFix ==
  /\ EngineIdle
  /\ combine = <<>>
  /\ calls = <<>>
  /\ pcs = <<>>
  /\ resizePins = FALSE
  /\ tree \in {BuildTree(p) : p \in FixParams}
  /\ stored = <<>>
  /\ config = <<>>
  /\ issues = <<>>
  /\ fixes = <<>>

\* the user deletes a node an issue is about, after the analysis
UserRemoveLayoutNode ==
  /\ issues # <<>>
  /\ \A n \in 1..Len(tree) : tree[n].live
  /\ \E i \in 1..Len(issues) :
       LET n == issues[i].nodeId
           p == tree[n].parent
       IN tree' = Kill([tree EXCEPT ![p].kids = Without(@, n), ![n].parent = NoNode],
                       Subtree(tree, n))
  /\ UNCHANGED <<stored, config, issues, fixes, engineVars, combine, calls, pcs, resizePins>>

\* a record of one fix call
FixCall(before, req, res, after) ==
  [before |-> before, req |-> req, res |-> res, after |-> after]

\* main.ts "fixLayoutIssue"
FixLayoutIssue ==
  /\ config # <<>>
  /\ Len(fixes) < MaxFixes
  /\ \E issue \in Range(issues) \cup TallIssues(tree) :
       \E out \in {fixLayoutIssue(tree, issue)} :
         /\ tree' = out.t
         /\ fixes' = Append(fixes, FixCall(tree, <<issue>>, <<out.result>>, out.t))
  /\ UNCHANGED <<stored, config, issues, engineVars, combine, calls, pcs, resizePins>>

\* the sub-lists of s with at most n elements, in the order of s
SubLists(s, n) ==
  { SelectSeq(s, LAMBDA e : e \in S) :
      S \in {T \in SUBSET Range(s) : T # {} /\ Cardinality(T) <= n} }

\* main.ts "fixAllLayoutIssues"
FixAllLayoutIssues ==
  /\ config # <<>>
  /\ fixes = <<>>
  /\ \E todo \in SubLists(issues, MaxBatch) :
       \E out \in {fixAllLayoutIssues(tree, todo)} :
         /\ tree' = out.t
         /\ fixes' = <<FixCall(tree, todo, out.results, out.t)>>
  /\ UNCHANGED <<stored, config, issues, engineVars, combine, calls, pcs, resizePins>>

NextFix == AnalyzeLayout \/ FixLayoutIssue

SpecFix == InitFix /\ [][NextFix]_vars

NextFixAll == AnalyzeLayout \/ UserRemoveLayoutNode \/ FixAllLayoutIssues

SpecFixAll == InitFix /\ [][NextFixAll]_vars

(***************************************************************************)
(* variantCombiner.ts: combineAsVariants                                   *)
(*                                                                         *)
(* Node names are sequences of UTF-16 code units here, because the engine  *)
(* builds the variant names by concatenation.  The frames of the document  *)
(* model carry no layoutMode, so the auto-layout branch of nodeToComponent *)
(* is never entered.                                                       *)
(***************************************************************************)
VARIANT_OFFSET_PX == 500

VARIANT_CONVERTIBLE_TYPES ==
  {"FRAME", "GROUP", "RECTANGLE", "ELLIPSE", "VECTOR", "COMPONENT"}

\* the code units of the names used in the documents
Units(text) ==
  CASE text = "Page 1"    -> <<80, 97, 103, 101, 32, 49>>
    [] text = "hero"      -> <<104, 101, 114, 111>>
    [] text = "card"      -> <<99, 97, 114, 100>>
    [] text = "label"     -> <<108, 97, 98, 101, 108>>
    [] text = "bg"        -> <<98, 103>>
    [] text = "photo"     -> <<112, 104, 111, 116, 111>>
    [] text = "list"      -> <<108, 105, 115, 116>>
    [] text = "rule"      -> <<114, 117, 108, 101>>
    [] text = "line"      -> <<108, 105, 110, 101>>
    [] text = "chip"      -> <<99, 104, 105, 112>>
    [] text = "dot"       -> <<100, 111, 116>>
    [] text = "level"     -> <<108, 101, 118, 101, 108>>
    [] text = "leaf"      -> <<108, 101, 97, 102>>
    [] text = "note"      -> <<110, 111, 116, 101>>
    [] text = "Component" -> <<67, 111, 109, 112, 111, 110, 101, 110, 116>>
    [] text = "State"     -> <<83, 116, 97, 116, 101>>
    [] text = "Size"      -> <<83, 105, 122, 101>>
    [] text = "Default"   -> <<68, 101, 102, 97, 117, 108, 116>>
    [] text = "Variant"   -> <<86, 97, 114, 105, 97, 110, 116>>
    [] text = "="         -> <<61>>

\* a || b on strings: the empty string is falsy
OrElse(a, b) == IF a = <<>> THEN b ELSE a

\* i === 0 ? "Default" : `Variant${i + 1}`, i the 0-based index in
\* req.nodeIds
VariantName(i) ==
  IF i = 0 THEN Units("Default") ELSE Units("Variant") \o NumStr(i + 1)

\* `${propertyName}=${entry.variantName}`
VariantLabel(propertyName, variantName) ==
  propertyName \o Units("=") \o variantName

snapshotNode(d, n) ==
  LET parent == d[n].parent IN
  [parentId         |-> parent,
   relX             |-> d[n].x,
   relY             |-> d[n].y,
   zIndex           |-> IF parent # NoNode THEN IndexOf(d[parent].kids, n) ELSE -1,
   parentIsInstance |-> /\ parent # NoNode
                        /\ \/ d[parent].type = "INSTANCE"
                           \/ isInsideInstance(d, parent),
   absoluteX        |-> AbsX(d, n),
   absoluteY        |-> AbsY(d, n)]

\* the clones of the children of a group, made before any of them is
\* appended; each clone remembers the position of its original
RECURSIVE CloneChildren(_, _, _, _)
CloneChildren(d, ks, i, clones) ==
  IF i > Len(ks) THEN [d |-> d, clones |-> clones]
  ELSE CloneChildren(Clone(d, ks[i]), ks, i + 1,
                     Append(clones, [clone |-> Len(d) + 1,
                                     x |-> d[ks[i]].x, y |-> d[ks[i]].y]))

RECURSIVE AppendClones(_, _, _, _)
AppendClones(d, clones, i, comp) ==
  IF i > Len(clones) THEN [ok |-> TRUE, d |-> d]
  ELSE IF ~ CanReparent(d, comp, clones[i].clone) THEN [ok |-> FALSE, d |-> d]
  ELSE AppendClones([AppendChild(d, comp, clones[i].clone)
                       EXCEPT ![clones[i].clone].x = clones[i].x,
                              ![clones[i].clone].y = clones[i].y],
                    clones, i + 1, comp)

\* try { node.remove(); } catch (_) {}
TryRemove(d, n) ==
  IF GetNodeById(d, n) # NoNode /\ CanRemove(d, n) THEN RemoveNode(d, n) ELSE d

ConvertThrew(d) == [ok |-> FALSE, d |-> d, comp |-> NoNode]
ConvertedTo(d, comp) == [ok |-> TRUE, d |-> d, comp |-> comp]

\* the branch of nodeToComponent for a node with children
PopulateFromContainer(d, node, comp, w, h) ==
  IF d[node].type = "GROUP"
  THEN LET cl == CloneChildren(d, d[node].kids, 1, <<>>)
           ap == AppendClones(cl.d, cl.clones, 1, comp)
       IN IF ~ ap.ok THEN ConvertThrew(ap.d)
          ELSE ConvertedTo(Resize(TryRemove(ap.d, node), comp, w, h), comp)
  ELSE LET mv == MoveChildren(d, d[node].kids, 1, comp)
       IN IF ~ mv.ok THEN ConvertThrew(mv.d)
          ELSE ConvertedTo(Resize(TryRemove(mv.d, node), comp, w, h), comp)

\* the branch of nodeToComponent for a leaf node
PopulateFromLeaf(d, node, comp, w, h) ==
  LET clone == Len(d) + 1
      d1 == Clone(d, node)
  IN IF ~ CanReparent(d1, comp, clone) THEN ConvertThrew(d1)
     ELSE LET d2 == [AppendChild(d1, comp, clone)
                       EXCEPT ![clone].x = 0, ![clone].y = 0]
          IN ConvertedTo(TryRemove(Resize(d2, comp, w, h), node), comp)

nodeToComponent(d, node) ==
  IF d[node].type \notin VARIANT_CONVERTIBLE_TYPES THEN ConvertThrew(d)
  ELSE IF isInsideProtected(d, node) THEN ConvertThrew(d)
  ELSE IF d[node].type = "COMPONENT" THEN ConvertedTo(d, node)
  ELSE LET w == d[node].w
           h == d[node].h
           comp == Len(d) + 1
           d1 == [CreateComponent(d)
                    EXCEPT ![comp].name = OrElse(d[node].name, Units("Component"))]
           d2 == IF d[node].type = "FRAME"
                 THEN [d1 EXCEPT ![comp].fills = d[node].fills] ELSE d1
       IN IF ~ CanResize(w, h) THEN ConvertThrew(d2)
          ELSE IF HasAppendChild(d, node) /\ d[node].kids # <<>>
          THEN PopulateFromContainer(Resize(d2, comp, w, h), node, comp, w, h)
          ELSE IF ~ HasAppendChild(d, node)
          THEN PopulateFromLeaf(Resize(d2, comp, w, h), node, comp, w, h)
          ELSE ConvertedTo(Resize(d2, comp, w, h), comp)

\* one line of the errors list: its reason and the node id it names
VariantError(reason, id) == [reason |-> reason, id |-> id]

\* step 1: the entries of the ids that resolve and are not protected
VariantEntry(d, nodeId, i) ==
  [originalId   |-> nodeId,
   originalName |-> OrElse(d[nodeId].name, Units("Component")),
   snapshot     |-> snapshotNode(d, nodeId),
   variantName  |-> VariantName(i)]

RECURSIVE ResolveEntries(_, _, _, _)
ResolveEntries(d, nodeIds, i, acc) ==
  IF i >= Len(nodeIds) THEN acc
  ELSE LET nodeId == nodeIds[i + 1] IN
       IF GetNodeById(d, nodeId) = NoNode
       THEN ResolveEntries(d, nodeIds, i + 1,
              [acc EXCEPT !.errors = Append(@, VariantError("not found", nodeId))])
       ELSE IF isInsideProtected(d, nodeId)
       THEN ResolveEntries(d, nodeIds, i + 1,
              [acc EXCEPT !.errors =
                 Append(@, VariantError("inside a component/instance", nodeId))])
       ELSE ResolveEntries(d, nodeIds, i + 1,
              [acc EXCEPT !.entries = Append(@, VariantEntry(d, nodeId, i))])

NoEntries(entries) == Len(entries) < 1

\* entries.length < 2
TooFewEntries(entries) == Len(entries) < 2

\* step 2: where the component set goes
RECURSIVE TopLevelOf(_, _)
TopLevelOf(d, cursor) ==
  IF d[cursor].parent # NoNode /\ d[cursor].parent # Page
  THEN TopLevelOf(d, d[cursor].parent)
  ELSE IF d[cursor].parent = Page THEN cursor ELSE NoNode

RECURSIVE CanvasExtent(_, _, _, _)
CanvasExtent(d, ks, i, acc) ==
  IF i > Len(ks) THEN acc
  ELSE LET right == AbsX(d, ks[i]) + d[ks[i]].w IN
       CanvasExtent(d, ks, i + 1,
         [maxRight  |-> IF acc.none \/ right > acc.maxRight
                        THEN right ELSE acc.maxRight,
          none      |-> FALSE,
          firstAbsY |-> IF acc.firstAbsY = 0 THEN AbsY(d, ks[i])
                        ELSE acc.firstAbsY])

VariantPlacement(d, firstSnap) ==
  LET firstParentNode == IF firstSnap.parentId # NoNode
                         THEN GetNodeById(d, firstSnap.parentId) ELSE NoNode
      topLevelAncestor == IF firstParentNode # NoNode /\ firstParentNode # Page
                          THEN TopLevelOf(d, firstParentNode) ELSE NoNode
  IN IF topLevelAncestor # NoNode
     THEN [x |-> AbsX(d, topLevelAncestor),
           y |-> AbsY(d, topLevelAncestor) + d[topLevelAncestor].h
                 + VARIANT_OFFSET_PX]
     ELSE LET e == CanvasExtent(d, d[Page].kids, 1,
                     [maxRight |-> 0, none |-> TRUE, firstAbsY |-> 0])
          IN [x |-> IF e.none THEN 0 ELSE e.maxRight + VARIANT_OFFSET_PX,
              y |-> e.firstAbsY]

\* step 3: one entry is converted and named
ConvertEntry(st, entry, propertyName) ==
  LET node == GetNodeById(st.d, entry.originalId) IN
  IF node = NoNode
  THEN [st EXCEPT !.errors =
          Append(@, VariantError("disappeared before conversion", entry.originalId))]
  ELSE LET r == IF st.d[node].type = "COMPONENT" THEN ConvertedTo(st.d, node)
                 ELSE nodeToComponent(st.d, node)
       IN
       IF ~ r.ok \/ ~ CanReparent(r.d, Page, r.comp)
       THEN [st EXCEPT !.d = r.d,
               !.errors = Append(@, VariantError("convert failed", entry.originalId))]
       ELSE [st EXCEPT
               !.d = [AppendChild(r.d, Page, r.comp)
                        EXCEPT ![r.comp].name =
                                 VariantLabel(propertyName, entry.variantName)],
               !.components = Append(@, r.comp),
               !.sources = Append(@, entry.originalId)]

RECURSIVE ConvertEntries(_, _, _, _)
ConvertEntries(st, entries, i, propertyName) ==
  IF i > Len(entries) THEN st
  ELSE ConvertEntries(ConvertEntry(st, entries[i], propertyName),
                      entries, i + 1, propertyName)

\* for (const c of components) try { c.remove(); } catch (_) {}
RECURSIVE RemoveComponents(_, _, _)
RemoveComponents(d, components, i) ==
  IF i > Len(components) THEN d
  ELSE RemoveComponents(TryRemove(d, components[i]), components, i + 1)

\* the host's figma.combineAsVariants(components, page): a COMPONENT_SET on
\* the page that holds the components in their order
RECURSIVE AdoptVariants(_, _, _, _)
AdoptVariants(d, components, i, set) ==
  IF i > Len(components) THEN d
  ELSE AdoptVariants(
         [DetachFrom(d, components[i])
            EXCEPT ![set].kids = Append(@, components[i]),
                   ![components[i]].parent = set],
         components, i + 1, set)

HostCombineAsVariants(d, components) ==
  LET set == Len(d) + 1
      d1 == Append(d, [NewNode("COMPONENT_SET", <<>>, 0, 0, 0, 0)
                         EXCEPT !.parent = Page])
  IN AdoptVariants([d1 EXCEPT ![Page].kids = Append(@, set)],
                   components, 1, set)

\* step 6: the instance of one variant takes the place of its original
PlaceVariantInstance(st, entry, comp) ==
  LET shot == entry.snapshot
      instance == Len(st.d) + 1
      d1 == CreateInstance(st.d, comp)
      originalParent == IF shot.parentId # NoNode
                        THEN GetNodeById(d1, shot.parentId) ELSE NoNode
      canInsert == /\ originalParent # NoNode
                   /\ HasAppendChild(d1, originalParent)
                   /\ ~ shot.parentIsInstance
  IN IF canInsert
     THEN IF ~ CanReparent(d1, originalParent, instance)
          THEN [st EXCEPT !.d = d1,
                  !.errors = Append(@, VariantError("instance placement failed",
                                                    entry.originalId))]
          ELSE LET d2 == AppendChild(d1, originalParent, instance)
                   d3 == IF shot.zIndex >= 0
                         THEN InsertChild(d2, originalParent, shot.zIndex, instance)
                         ELSE d2
               IN [st EXCEPT !.d = [d3 EXCEPT ![instance].x = shot.relX,
                                              ![instance].y = shot.relY]]
     ELSE [st EXCEPT !.d = [AppendChild(d1, Page, instance)
                              EXCEPT ![instance].x = shot.absoluteX,
                                     ![instance].y = shot.absoluteY]]

RECURSIVE PlaceVariantInstances(_, _, _)
PlaceVariantInstances(st, entries, i) ==
  IF i > Len(entries) THEN st
  ELSE IF i > Len(st.components) THEN PlaceVariantInstances(st, entries, i + 1)
  ELSE PlaceVariantInstances(
         PlaceVariantInstance(st, entries[i], st.components[i]), entries, i + 1)

NothingConverted == [components |-> <<>>, sources |-> <<>>]

\* a failure result; the components and their sources are ghosts
CombineFailed(d, errors, entries, st) ==
  [d |-> d,
   result |-> [success |-> FALSE, componentSetId |-> NoNode,
               componentSetName |-> <<>>, variantCount |-> 0,
               errors |-> errors],
   entries |-> entries, components |-> st.components, sources |-> st.sources]

\* steps 4 to 6, once at least two components exist
CombineComponents(st, req, entries, place) ==
  LET set == Len(st.d) + 1
      setName == OrElse(req.componentSetName, entries[1].originalName)
      d1 == [HostCombineAsVariants(st.d, st.components)
               EXCEPT ![set].name = setName, ![set].x = place.x,
                      ![set].y = place.y]
      done == PlaceVariantInstances([st EXCEPT !.d = d1], entries, 1)
  IN [d |-> done.d,
      result |-> [success |-> TRUE, componentSetId |-> set,
                  componentSetName |-> setName,
                  variantCount |-> Len(st.components),
                  errors |-> done.errors],
      entries |-> entries, components |-> st.components,
      sources |-> st.sources]

\* steps 2 and 3, once at least two entries exist
CombineEntries(d, req, errors, entries, mergeThrows) ==
  LET propertyName == OrElse(req.propertyName, Units("State"))
      place == VariantPlacement(d, entries[1].snapshot)
      st == ConvertEntries([d |-> d, components |-> <<>>, sources |-> <<>>,
                            errors |-> errors],
                           entries, 1, propertyName)
  IN IF Len(st.components) < 2
     THEN CombineFailed(RemoveComponents(st.d, st.components, 1),
                        Append(st.errors,
                               VariantError("not enough components created", NoNode)),
                        entries, st)
     ELSE IF mergeThrows
     THEN CombineFailed(RemoveComponents(st.d, st.components, 1),
                        Append(st.errors,
                               VariantError("combineAsVariants failed", NoNode)),
                        entries, st)
     ELSE CombineComponents(st, req, entries, place)

\* the returned result, the document after the call and, as ghosts, the
\* entries, the components and the originals the components were built
\* from; mergeThrows tells whether the host's figma.combineAsVariants
\* throws in this call
combineAsVariants(d, req, mergeThrows) ==
  IF Len(req.nodeIds) < 2
  THEN CombineFailed(d, <<VariantError("at least 2 nodes are required", NoNode)>>,
                     <<>>, NothingConverted)
  ELSE LET r == ResolveEntries(d, req.nodeIds, 0,
                               [entries |-> <<>>, errors |-> <<>>])
       IN IF TooFewEntries(r.entries)
          THEN CombineFailed(d, Append(r.errors,
                                       VariantError("not enough valid nodes", NoNode)),
                             r.entries, NothingConverted)
          ELSE CombineEntries(d, req, r.errors, r.entries, mergeThrows)

(***************************************************************************)
(* The combine requests of the model: up to MaxIds distinct ids of the     *)
(* selectable nodes of the document, one of which the user has deleted     *)
(* since selecting it.  A selection never holds a node together with one   *)
(* of its ancestors.                                                       *)
(***************************************************************************)
MaxIds == 3

\* every name of the document as code units
WithUnits(d) == Tup([n \in 1..Len(d) |-> [d[n] EXCEPT !.name = Units(@)]])

Named(d, text) == {n \in 1..Len(d) : d[n].name = Units(text)}

\* the chip of the list, which the user deleted after selecting it
DeletedChip(d) ==
  CHOOSE n \in Named(d, "chip") : d[n].parent # Page

Selectable(d) ==
  Named(d, "card") \cup Named(d, "photo") \cup Named(d, "chip")
    \cup {CHOOSE n \in Named(d, "rule") : TRUE}
    \cup {CHOOSE n \in Named(d, "label") : d[d[n].parent].y > 0}

Unnested(d, ids) ==
  \A i, j \in 1..Len(ids) : ids[i] \notin Ancestors(d, ids[j])

VariantDoc(p) ==
  LET d == WithUnits(Build(p)) IN RemoveNode(d, DeletedChip(d))

VariantParams ==
  { p \in PlacementParams :
      p.order = 1 /\ (p.mtype = "FRAME" => p.f2 = MasterFills) }

\* the sequences of at most n distinct elements of S
RECURSIVE DistinctSeqs(_, _)
DistinctSeqs(S, n) ==
  IF n = 0 THEN {<<>>}
  ELSE LET shorter == DistinctSeqs(S, n - 1)
       IN shorter \cup
          UNION {{Append(s, e) : e \in S \ Range(s)} :
                   s \in {t \in shorter : Len(t) = n - 1}}

InitVariants ==
  /\ doc \in {VariantDoc(p) : p \in VariantParams}
  /\ fontLoaded = TRUE
  /\ phase = "idle"
  /\ includeProt = FALSE
  /\ groups = <<>>
  /\ visited = {}
  /\ edits = 0
  /\ pre = <<>>
  /\ requests = <<>>
  /\ results = <<>>
  /\ LayoutIdle
  /\ combine = <<>>
  /\ calls = <<>>
  /\ pcs = <<>>
  /\ resizePins = FALSE

\* the "combineAsVariants" message of main.ts: the engine runs and the
\* result is posted to the UI (focusing the new set changes no node)
CombineAsVariants ==
  /\ combine = <<>>
  /\ \E ids \in {s \in DistinctSeqs(Selectable(doc), MaxIds) : Unnested(doc, s)} :
       \E prop \in {<<>>, Units("Size")}, mergeThrows \in BOOLEAN :
         \E req \in {[nodeIds |-> ids, componentSetName |-> <<>>,
                      propertyName |-> prop]} :
           \E r \in {combineAsVariants(doc, req, mergeThrows)} :
             /\ doc' = r.d
             /\ combine' = Append(combine,
                             [req |-> req, mergeThrows |-> mergeThrows,
                              before |-> doc, after |-> r.d,
                              result |-> r.result,
                              entries |-> r.entries,
                              components |-> r.components,
                              sources |-> r.sources])
  /\ UNCHANGED <<fontLoaded, phase, includeProt, groups, visited, edits, pre,
                 requests, results, layoutVars, calls, pcs, resizePins>>

NextVariants == CombineAsVariants

SpecVariants == InitVariants /\ [][NextVariants]_vars

(***************************************************************************)
(* Documents whose cards are auto-layout frames.                           *)
(***************************************************************************)
AutoLayouts ==
  { l \in [layoutMode : {"HORIZONTAL", "VERTICAL"},
           primaryAxisSizingMode : {"AUTO", "FIXED"},
           counterAxisSizingMode : {"AUTO", "FIXED"},
           itemSpacing : {8},
           paddingLeft : {4}, paddingRight : {6},
           paddingTop : {2}, paddingBottom : {3}] : TRUE }

\* every card frame of d gets the auto-layout l
WithLayout(d, l) ==
  Tup([n \in 1..Len(d) |->
         IF d[n].type = "FRAME" /\ d[n].name = "card"
         THEN [d[n] EXCEPT !.lay = l] ELSE d[n]])

AutoParams == { p \in PlacementParams : p.mtype = "FRAME" /\ p.f2 = MasterFills }

InitAuto ==
  /\ doc \in {WithLayout(Build(p), l) : p \in AutoParams, l \in AutoLayouts}
  /\ fontLoaded = TRUE
  /\ phase = "idle"
  /\ includeProt = FALSE
  /\ groups = <<>>
  /\ visited = {}
  /\ edits = 0
  /\ pre = <<>>
  /\ requests = <<>>
  /\ results = <<>>
  /\ LayoutIdle
  /\ combine = <<>>
  /\ calls = <<>>
  /\ pcs = <<>>
  /\ resizePins \in BOOLEAN

NextAuto == Scan \/ Convert

SpecAuto == InitAuto /\ [][NextAuto]_vars

(***************************************************************************)
(* Fixing on every tree of the family: an analysis, then single fixes of   *)
(* the issues it returned.                                                 *)
(***************************************************************************)
\* what clientStorage holds while fixes are run
ResolveConfigs == {<<>>, <<[checks |-> [cornerConstraint |-> FALSE]]>>}

\* every placement and every pair of constraints of A in a plain frame, and
\* the default settings of A in an auto-layout frame
ResolveParams ==
  { p \in TreeParams :
      /\ p.pad = 0 /\ p.align = "INHERIT"
      /\ p.mode # "NONE" => p.hc = "MIN" /\ p.grow = 0 }

InitResolve ==
  /\ EngineIdle
  /\ combine = <<>>
  /\ calls = <<>>
  /\ pcs = <<>>
  /\ resizePins = FALSE
  /\ tree \in {BuildTree(p) : p \in ResolveParams}
  /\ stored \in ResolveConfigs
  /\ config = <<>>
  /\ issues = <<>>
  /\ fixes = <<>>

NextResolve == AnalyzeLayout \/ FixLayoutIssue

SpecResolve == InitResolve /\ [][NextResolve]_vars

(***************************************************************************)
(* Rounds: the UI asks for an analysis and sends the whole list it got to  *)
(* fixAllLayoutIssues, again and again.                                    *)
(*                                                                         *)
(* phase is where the UI is in its round: "idle" at the start, "analysed"   *)
(* with the list of an analysis at hand, "fixed" after the fixes.          *)
(***************************************************************************)
roundVars == <<doc, fontLoaded, includeProt, groups, visited, edits, pre,
               requests, results, combine, calls, pcs, resizePins>>

\* the UI asks for an analysis at the start and after every fix-all
AnalyzeTurn == phase \in {"idle", "fixed"} /\ phase' = "analysed"

\* the UI sends the list back if there is anything in it
FixTurn == phase = "analysed" /\ issues # <<>> /\ phase' = "fixed"

\* main.ts "analyzeLayout"
AnalyzeRound ==
  /\ AnalyzeTurn
  /\ \E cfg \in {ActiveConfig(stored)} :
       /\ config' = <<cfg>>
       /\ issues' = checkLayout(tree, <<Page>>, cfg)
  /\ fixes' = <<>>
  /\ UNCHANGED <<tree, stored, roundVars>>

\* main.ts "fixAllLayoutIssues" with every issue of the analysis
FixRound ==
  /\ FixTurn
  /\ \E out \in {fixAllLayoutIssues(tree, issues)} :
       /\ tree' = out.t
       /\ fixes' = <<FixCall(tree, issues, out.results, out.t)>>
  /\ UNCHANGED <<stored, config, issues, roundVars>>

NextRounds == AnalyzeRound \/ FixRound

SpecRounds == InitResolve /\ [][NextRounds]_vars

\* the rounds go on as long as there is something to do
FairRounds == SpecRounds /\ WF_phase(AnalyzeTurn) /\ WF_phase(FixTurn)

(***************************************************************************)
(* Documents with wrappers: frames nested in each other, each the only     *)
(* child of the one above, around one rectangle.                           *)
(***************************************************************************)
MaxWrap == 7

\* levels frames below par, each step narrower than the one above
RECURSIVE AddWrap(_, _, _, _, _)
AddWrap(d, par, size, step, levels) ==
  IF levels = 0 THEN AddNode(d, par, NewNode("RECTANGLE", "core", 0, 0, 8, 8))
  ELSE LET f == Len(d) + 1
       IN AddWrap(AddNode(d, par, NewNode("FRAME", "wrap", 0, 0, size, 48)),
                  f, size - step, step, levels - 1)

WrapSteps == {0, 1, 4}

NestedParams ==
  { p \in PlacementParams : p.order = 1 /\ p.mtype = "FRAME" /\ p.f2 = MasterFills }

InitNested ==
  /\ doc \in {AddWrap(Build(p), Page, 96, step, levels) :
                p \in NestedParams, step \in WrapSteps, levels \in 1..MaxWrap}
  /\ fontLoaded = TRUE
  /\ phase = "idle"
  /\ includeProt = FALSE
  /\ groups = <<>>
  /\ visited = {}
  /\ edits = 0
  /\ pre = <<>>
  /\ requests = <<>>
  /\ results = <<>>
  /\ LayoutIdle
  /\ combine = <<>>
  /\ calls = <<>>
  /\ pcs = <<>>
  /\ resizePins = FALSE

SpecNested == InitNested /\ [][NextScan]_vars

(***************************************************************************)
(* The layout-config handlers of main.ts as the asynchronous functions     *)
(* they are: the handler runs up to its await of figma.clientStorage, the  *)
(* host carries the operation out or rejects it, and the rest of the       *)
(* function posts the reply.  Requests may overlap.                        *)
(*                                                                         *)
(* pcs[i] is where the handler of request i is:                            *)
(*   "awaiting" | "resolved" | "rejected" | "replied"                      *)
(* and calls[i] is what it has at hand:                                    *)
(*   type    the message type                                              *)
(*   msg     <<msg.config>>, or <<>> when the message has none             *)
(*   config  <<the config the handler computed>>                           *)
(*   got     <<what getAsync returned>> (itself <<>> or <<value>>)         *)
(*   reply   <<the message posted to the UI>>                              *)
(* and, as ghosts,                                                         *)
(*   wrote   <<what the storage held right after this call's write>>       *)
(*   failed  the host rejected the operation                               *)
(*   after   the calls that had been answered when this one was issued     *)
(*   wno     the how-manieth write to the storage this call's write was    *)
(*   saw     the number of writes done when this call's read was done      *)
(*   replies the number of replies posted for it                           *)
(***************************************************************************)
MaxRequests == 2

WriteTypes == {"saveLayoutConfig", "resetLayoutConfig"}
ReadTypes == {"loadLayoutConfig", "analyzeLayout"}

\* the msg.config values the UI sends with saveLayoutConfig
SaveMessages ==
  { <<>>, <<[onlyDefaults |-> TRUE, checks |-> [cornerConstraint |-> FALSE]]>> }

CallIdx == 1..Len(calls)

Answered == { i \in CallIdx : pcs[i] = "replied" }

WritesDone == Cardinality({ i \in CallIdx : calls[i].wno > 0 })

NewCall(type, msg, cfg) ==
  [type |-> type, msg |-> msg, config |-> cfg,
   got |-> <<>>, reply |-> <<>>, wrote |-> <<>>, failed |-> FALSE,
   after |-> Answered, wno |-> 0, saw |-> 0, replies |-> 0]

configVars == <<tree, fixes, engineVars, combine, resizePins>>

\* main.ts "saveLayoutConfig" up to the await:
\* config = mergeWithDefaults(msg.config ?? {}); setAsync(KEY, config)
RequestSave ==
  /\ Len(calls) < MaxRequests
  /\ \E m \in SaveMessages :
       calls' = Append(calls,
                  NewCall("saveLayoutConfig", m,
                          <<mergeWithDefaults(IF m = <<>> THEN [k \in {} |-> TRUE] ELSE m[1])>>))
  /\ pcs' = Append(pcs, "awaiting")
  /\ UNCHANGED <<stored, config, issues, configVars>>

\* main.ts "resetLayoutConfig" up to the await: setAsync(KEY, DEFAULT_LAYOUT_CONFIG)
RequestReset ==
  /\ Len(calls) < MaxRequests
  /\ calls' = Append(calls, NewCall("resetLayoutConfig", <<>>, <<DEFAULT_LAYOUT_CONFIG>>))
  /\ pcs' = Append(pcs, "awaiting")
  /\ UNCHANGED <<stored, config, issues, configVars>>

\* main.ts "loadLayoutConfig" up to the await: getAsync(KEY)
RequestLoad ==
  /\ Len(calls) < MaxRequests
  /\ calls' = Append(calls, NewCall("loadLayoutConfig", <<>>, <<>>))
  /\ pcs' = Append(pcs, "awaiting")
  /\ UNCHANGED <<stored, config, issues, configVars>>

\* main.ts "analyzeLayout" up to the await: getAsync(KEY)
RequestAnalyze ==
  /\ Len(calls) < MaxRequests
  /\ calls' = Append(calls, NewCall("analyzeLayout", <<>>, <<>>))
  /\ pcs' = Append(pcs, "awaiting")
  /\ UNCHANGED <<stored, config, issues, configVars>>

\* the host carries out the storage operation of call i
Resolved(c, st, done) ==
  IF c.type \in WriteTypes
  THEN [c EXCEPT !.wrote = st, !.wno = done + 1]
  ELSE [c EXCEPT !.got = <<st>>, !.saw = done]

\* what the storage holds after the operation of call c
StorageAfter(c, st) == IF c.type \in WriteTypes THEN c.config ELSE st

\* the await of call i ends, fulfilled or rejected
AwaitEnds(i, how) == pcs[i] = "awaiting" /\ pcs' = [pcs EXCEPT ![i] = how]

StorageResolves ==
  \E i \in CallIdx :
    /\ AwaitEnds(i, "resolved")
    /\ stored' = StorageAfter(calls[i], stored)
    /\ calls' = [calls EXCEPT ![i] = Resolved(calls[i], stored', WritesDone)]
    /\ UNCHANGED <<config, issues, configVars>>

\* the host rejects the storage operation of call i; the storage is as before
StorageRejects ==
  \E i \in CallIdx :
    /\ AwaitEnds(i, "rejected")
    /\ calls' = [calls EXCEPT ![i].failed = TRUE]
    /\ UNCHANGED <<stored, config, issues, configVars>>

ReplyType(type) ==
  CASE type = "saveLayoutConfig"  -> "saveLayoutConfigResult"
    [] type = "resetLayoutConfig" -> "saveLayoutConfigResult"
    [] type = "loadLayoutConfig"  -> "loadLayoutConfigResult"
    [] type = "analyzeLayout"     -> "analyzeLayoutResult"

ConfigReply(type, success, cfg, data) ==
  [type |-> ReplyType(type), success |-> success, config |-> cfg, data |-> data]

\* the catch block of the handler
FailureReply(c) ==
  ConfigReply(c.type, FALSE,
              IF c.type = "loadLayoutConfig" THEN <<DEFAULT_LAYOUT_CONFIG>> ELSE <<>>,
              <<>>)

\* a reply that carries msg.config as it came
EchoMessage(c) == c.msg

\* the config a save or reset reply carries: the one handed to setAsync
Echo(c) == c.config

\* the statements after the await
SuccessReply(c, t) ==
  IF c.type \in WriteTypes THEN ConfigReply(c.type, TRUE, Echo(c), <<>>)
  ELSE LET cfg == ActiveConfig(c.got[1])
       IN ConfigReply(c.type, TRUE, <<cfg>>,
                      IF c.type = "analyzeLayout" THEN checkLayout(t, <<Page>>, cfg) ELSE <<>>)

ReplyOf(c, t) == IF c.failed THEN FailureReply(c) ELSE SuccessReply(c, t)

\* the handler of call i goes on after its await and ends
HandlerEnds(i) ==
  /\ pcs[i] \in {"resolved", "rejected"}
  /\ pcs' = [pcs EXCEPT ![i] = "replied"]

\* the rest of the handler of call i runs and posts its message
PostReply ==
  \E i \in CallIdx :
    /\ HandlerEnds(i)
    /\ \E r \in {ReplyOf(calls[i], tree)} :
         /\ calls' = [calls EXCEPT ![i].reply = <<r>>,
                                   ![i].replies = @ + 1,
                                   ![i].config = IF calls[i].type \in ReadTypes /\ r.success
                                                 THEN r.config ELSE @]
         /\ config' = IF calls[i].type = "analyzeLayout" /\ r.success THEN r.config ELSE config
         /\ issues' = IF calls[i].type = "analyzeLayout" /\ r.success THEN r.data ELSE issues
    /\ UNCHANGED <<stored, configVars>>

\* what clientStorage holds at the start: nothing, or a config of an older version
OlderConfigs == {<<>>, <<[edgeProximityRatio |-> 30, fillRatio |-> 90]>>}

InitConfig ==
  /\ EngineIdle
  /\ combine = <<>>
  /\ calls = <<>>
  /\ pcs = <<>>
  /\ resizePins = FALSE
  /\ tree \in {BuildTree(p) : p \in {q \in FixParams : q.mode = "NONE" /\ q.place.w = 150}}
  /\ stored \in OlderConfigs
  /\ config = <<>>
  /\ issues = <<>>
  /\ fixes = <<>>

NextConfig ==
  \/ RequestSave \/ RequestReset \/ RequestLoad \/ RequestAnalyze
  \/ StorageResolves \/ StorageRejects \/ PostReply

SpecConfig == InitConfig /\ [][NextConfig]_vars

\* the host ends every storage operation
HostTurn == \E i \in CallIdx : AwaitEnds(i, "resolved") \/ AwaitEnds(i, "rejected")

\* a handler whose await has ended runs on
HandlerTurn == \E i \in CallIdx : HandlerEnds(i)

FairConfig == SpecConfig /\ WF_pcs(HostTurn) /\ WF_pcs(HandlerTurn)

(***************************************************************************)
(* Vocabulary of the properties.                                           *)
(***************************************************************************)
Converted == phase = "converted"

ReqIdx == 1..Len(requests)
MemberIdx(k) == 1..Len(requests[k].nodeIds)

\* every node id of request k resolved when convertGroups was called
AllResolve(k) == \A i \in MemberIdx(k) : GetNodeById(pre, requests[k].nodeIds[i]) # NoNode

\* the request was reported as a complete success
CleanResult(k) == results[k].componentId # NoNode /\ results[k].errors = <<>>

\* the instance nodes request k created for its member i that are in the tree
InstancesFor(k, i) ==
  {m.inst : m \in {e \in Range(results[k].made) : e.member = i /\ doc[e.inst].live}}

\* member i of request k is a node outside any COMPONENT/INSTANCE
FreeMember(k, i) == ~ isInsideProtected(pre, requests[k].nodeIds[i])

SetMax(S) == CHOOSE m \in S : \A x \in S : m >= x

(***************************************************************************)
(* C1  No-gap: a request whose node ids all resolve (and that is reported  *)
(* without errors) has exactly one instance in the tree for each member,   *)
(* under the member's original parent at its pre-conversion x/y.           *)
(***************************************************************************)
C1_NoGap ==
  Converted =>
    \A k \in ReqIdx :
      AllResolve(k) /\ CleanResult(k) =>
        \A i \in MemberIdx(k) :
          LET id == requests[k].nodeIds[i] IN
          /\ Cardinality(InstancesFor(k, i)) = 1
          /\ \A n \in InstancesFor(k, i) :
               /\ doc[n].parent = pre[id].parent
               /\ doc[n].x = pre[id].x
               /\ doc[n].y = pre[id].y

(***************************************************************************)
(* C2  Shared definition: every instance that replaces a member of a       *)
(* request is an instance of the component reported as componentId, and    *)
(* that component is the only one the request created.                     *)
(***************************************************************************)
C2_SharedDefinition ==
  Converted =>
    \A k \in ReqIdx :
      results[k].componentId # NoNode =>
        /\ \A i \in MemberIdx(k) : \A n \in InstancesFor(k, i) :
             doc[n].main = results[k].componentId
        /\ results[k].comps = {results[k].componentId}

(***************************************************************************)
(* C3  z-order: the instance that replaces a member has the child index    *)
(* the member had, for the master as for the others, and the siblings that *)
(* are no members keep their index.                                        *)
(***************************************************************************)
IsMember(n) == \E k \in ReqIdx : \E i \in MemberIdx(k) : requests[k].nodeIds[i] = n

C3_ZOrder ==
  Converted /\ (\A k \in ReqIdx : AllResolve(k) /\ CleanResult(k)) =>
    \A k \in ReqIdx : \A i \in MemberIdx(k) :
      LET id == requests[k].nodeIds[i]
          p == pre[id].parent
      IN FreeMember(k, i) =>
           /\ Len(doc[p].kids) = Len(pre[p].kids)
           /\ \A j \in 1..Len(pre[p].kids) :
                /\ pre[p].kids[j] = id => doc[p].kids[j] \in InstancesFor(k, i)
                /\ ~ IsMember(pre[p].kids[j]) => doc[p].kids[j] = pre[p].kids[j]

(***************************************************************************)
(* C4  Definition placement: every created master definition is a child of *)
(* the page at x = rightmost edge of all snapshots of the batch + 500; the *)
(* definitions are stacked downwards from the absoluteY of the first       *)
(* snapshot, each below the previous one by its height + 40, failed        *)
(* requests not counting; so no definition is at a member's position and   *)
(* no two definitions overlap.                                             *)
(***************************************************************************)
BatchRight ==
  SetMax(UNION {{requests[k].nodes[i].absoluteX + requests[k].nodes[i].width :
                   i \in 1..Len(requests[k].nodes)} : k \in ReqIdx})

\* height + 40 of every definition created by the requests 1..k
RECURSIVE StackedBefore(_)
StackedBefore(k) ==
  IF k = 0 THEN 0
  ELSE StackedBefore(k - 1) +
       (IF results[k].componentId # NoNode
        THEN doc[results[k].componentId].h + 40 ELSE 0)

C4_DefinitionPlacement ==
  Converted =>
    \A k \in ReqIdx :
      results[k].componentId # NoNode =>
        LET c == results[k].componentId IN
        /\ doc[c].live /\ doc[c].type = "COMPONENT"
        /\ doc[c].parent = Page
        /\ doc[c].x = BatchRight + 500
        /\ doc[c].y = requests[1].nodes[1].absoluteY + StackedBefore(k - 1)
        /\ \A q \in ReqIdx : \A i \in 1..Len(requests[q].nodes) :
             doc[c].x > requests[q].nodes[i].absoluteX
        /\ \A j \in 1..(k - 1) :
             results[j].componentId # NoNode =>
               doc[results[j].componentId].y + doc[results[j].componentId].h < doc[c].y

\* a batch of three requests whose second request failed
C4_Witness ==
  /\ Converted
  /\ Len(results) = 3
  /\ results[1].componentId # NoNode
  /\ results[2].componentId = NoNode
  /\ results[3].componentId # NoNode

(***************************************************************************)
(* C5  Partial failure with rollback: a request whose definition could not *)
(* be created reports componentId = null, successCount = 0 and an error,   *)
(* none of the components it created is left in the document, and every    *)
(* request of the batch has its result.                                    *)
(***************************************************************************)
C5_RollbackOnFailure ==
  Converted =>
    /\ Len(results) = Len(requests)
    /\ \A k \in ReqIdx :
         results[k].componentId = NoNode =>
           /\ results[k].successCount = 0
           /\ results[k].errors # <<>>
           /\ \A c \in results[k].comps : ~ doc[c].live

(***************************************************************************)
(* C6  Text diff round-trip: a text leaf name present in the master and in *)
(* the candidate with different content yields the text diff {name,        *)
(* candidate's content} and no other name yields one; after the candidate's*)
(* DiffEntry is applied to its instance of the master, each such leaf of   *)
(* the instance has the candidate's content.                               *)
(***************************************************************************)
TextNames(d, n) == {d[t].name : t \in Range(TextNodes(d, n))}
TextOf(d, n, nm) == {d[t].chars : t \in {u \in Range(TextNodes(d, n)) : d[u].name = nm}}

C6_TextDiffRoundTrip ==
  /\ (phase = "scanned" /\ edits = 0) =>
       \A g \in 1..Len(groups) : \A i \in 2..Len(groups[g].nodes) :
         LET m == groups[g].nodes[1].id
             c == groups[g].nodes[i].id
             tds == Range(groups[g].diffs[i - 1].textDiffs)
         IN /\ \A nm \in TextNames(doc, m) \cap TextNames(doc, c) :
                 \A v \in TextOf(doc, c, nm) :
                   TextOf(doc, m, nm) # {v} => [childName |-> nm, value |-> v] \in tds
            /\ \A td \in tds :
                 /\ td.childName \in TextNames(doc, m)
                 /\ td.value \in TextOf(doc, c, td.childName)
                 /\ TextOf(doc, m, td.childName) # {td.value}
  /\ (Converted /\ edits = 0) =>
       \A k \in ReqIdx : \A i \in 2..Len(requests[k].nodeIds) :
         CleanResult(k) /\ FreeMember(k, i) =>
           \A td \in Range(requests[k].diffs[i - 1].textDiffs) :
             \A n \in InstancesFor(k, i) :
               TextOf(doc, n, td.childName) = {td.value}

(***************************************************************************)
(* C7  Fill diff: a member whose fills differ from the master's (length,   *)
(* paint type, or a SOLID paint off by more than 0.01) gets a fill diff,   *)
(* hasDiffs is true, and its instance gets the member's whole fill array;  *)
(* a member with equal fills gets no fill override.                        *)
(***************************************************************************)
FillsDiffer(a, b) ==
  \/ Len(a) # Len(b)
  \/ \E i \in 1..Len(a) :
       \/ a[i].type # b[i].type
       \/ /\ a[i].type = "SOLID"
          /\ \/ Abs(a[i].r - b[i].r) > 10
             \/ Abs(a[i].g - b[i].g) > 10
             \/ Abs(a[i].b - b[i].b) > 10
             \/ Abs(a[i].opacity - b[i].opacity) > 10

C7_FillDiff ==
  /\ (phase = "scanned" /\ edits = 0) =>
       \A g \in 1..Len(groups) : \A i \in 2..Len(groups[g].nodes) :
         LET m == groups[g].nodes[1].id
             c == groups[g].nodes[i].id
         IN IF FillsDiffer(doc[m].fills, doc[c].fills)
            THEN groups[g].diffs[i - 1].fillDiffs # <<>> /\ groups[g].hasDiffs
            ELSE groups[g].diffs[i - 1].fillDiffs = <<>>
  /\ (Converted /\ edits = 0) =>
       \A k \in ReqIdx : \A i \in 2..Len(requests[k].nodeIds) :
         CleanResult(k) /\ FreeMember(k, i) =>
           LET m == requests[k].nodeIds[1]
               c == requests[k].nodeIds[i]
           IN \A n \in InstancesFor(k, i) :
                doc[n].fills = IF FillsDiffer(pre[m].fills, pre[c].fills)
                               THEN pre[c].fills
                               ELSE doc[results[k].componentId].fills

(***************************************************************************)
(* C8  Fingerprint stability: two nodes of the same type whose width and   *)
(* height fall in the same 4-unit bucket and whose children have the same  *)
(* multiset of fingerprints have the same fingerprint, whatever the order  *)
(* of the children; the scan puts two candidates in one group exactly when *)
(* their fingerprints are equal.  (The first part is a property of the     *)
(* document, evaluated before the scan; the second of the scan's result.)  *)
(***************************************************************************)
Bucket(v) == (v + 2) \div 4

FpTimes(fps, f) == Cardinality({i \in 1..Len(fps) : fps[i] = f})

SameMultiset(fa, fb) ==
  /\ Len(fa) = Len(fb)
  /\ \A i \in 1..Len(fa) : FpTimes(fa, fa[i]) = FpTimes(fb, fa[i])

InGroupTogether(a, b) ==
  \E g \in 1..Len(groups) :
    /\ \E i \in 1..Len(groups[g].nodes) : groups[g].nodes[i].id = a
    /\ \E i \in 1..Len(groups[g].nodes) : groups[g].nodes[i].id = b

C8_FingerprintStability ==
  LET N == 1..Len(doc)
      fp == Tup([n \in N |-> buildFingerprint(doc, n, 0)])
      kidFps == Tup([n \in N |-> Tup([i \in 1..Len(doc[n].kids) |->
                                        buildFingerprint(doc, doc[n].kids[i], 1)])])
  IN /\ phase \in {"idle", "retyped"} =>
        \A a, b \in N :
          /\ doc[a].type = doc[b].type
          /\ Bucket(doc[a].w) = Bucket(doc[b].w)
          /\ Bucket(doc[a].h) = Bucket(doc[b].h)
          /\ SameMultiset(kidFps[a], kidFps[b])
          => fp[a] = fp[b]
     /\ phase = "scanned" =>
          \A a, b \in N :
            /\ a # b
            /\ IsCandidate(doc, a, includeProt)
            /\ IsCandidate(doc, b, includeProt)
            => (InGroupTogether(a, b) <=> fp[a] = fp[b])

\* a group holds two nodes of different width whose children are in a
\* different order
C8_Witness ==
  /\ phase = "scanned"
  /\ \E g \in 1..Len(groups) : \E i, j \in 1..Len(groups[g].nodes) :
       LET a == groups[g].nodes[i].id
           b == groups[g].nodes[j].id
       IN /\ doc[a].w # doc[b].w
          /\ doc[doc[a].kids[1]].type # doc[doc[b].kids[1]].type

(***************************************************************************)
(* C9  Fingerprint sensitivity.  As claimed: changing the type of any leaf *)
(* of a candidate's subtree, at any depth, changes the candidate's         *)
(* fingerprint.  As amended: of any leaf at most 4 levels below the        *)
(* candidate; the type of a leaf further down is not part of the           *)
(* fingerprint.  (A property of the document; it is evaluated before the   *)
(* scan, the scan does not change the document.)                           *)
(***************************************************************************)
AllTypes == {"FRAME", "GROUP", "TEXT", "RECTANGLE", "LINE", "ELLIPSE", "VECTOR",
             "COMPONENT", "INSTANCE"}

IsCandidateNode(d, c) == d[c].type \in {"FRAME", "GROUP"} /\ d[c].kids # <<>>

LeavesUnder(d, c) == {l \in Subtree(d, c) : d[l].kids = <<>>}

LevelsBelow(d, c, l) == Cardinality(Ancestors(d, l)) - Cardinality(Ancestors(d, c))

TypeChangeShows(c, l) ==
  \A t \in AllTypes \ {doc[l].type} :
    buildFingerprint(Retype(doc, l, t), c, 0) # buildFingerprint(doc, c, 0)

C9_AnyDepth ==
  phase \in {"idle", "retyped"} =>
    \A c \in 1..Len(doc) :
      IsCandidateNode(doc, c) => \A l \in LeavesUnder(doc, c) : TypeChangeShows(c, l)

C9_FingerprintSensitivity ==
  phase \in {"idle", "retyped"} =>
    \A c \in 1..Len(doc) :
      IsCandidateNode(doc, c) =>
        \A l \in LeavesUnder(doc, c) :
          IF LevelsBelow(doc, c, l) <= 4
          THEN TypeChangeShows(c, l)
          ELSE \A t \in AllTypes :
                 buildFingerprint(Retype(doc, l, t), c, 0) = buildFingerprint(doc, c, 0)

\* a retyped document with a candidate that has a leaf exactly 4 levels down
C9_Witness ==
  /\ phase = "retyped"
  /\ \E c \in 1..Len(doc) :
       /\ IsCandidateNode(doc, c)
       /\ \E l \in LeavesUnder(doc, c) : LevelsBelow(doc, c, l) = 4

(***************************************************************************)
(* C10  Scan groups: every returned group has at least 2 nodes, all FRAME  *)
(* or GROUP with a child and with the group's fingerprint; without         *)
(* includeProtected no returned node has a COMPONENT/INSTANCE ancestor and *)
(* no node below a COMPONENT/INSTANCE was visited.                         *)
(***************************************************************************)
HasProtectedAncestor(n) ==
  \E a \in Ancestors(doc, n) : doc[a].type \in {"COMPONENT", "INSTANCE"}

C10_ScanGroups ==
  phase = "scanned" =>
    /\ \A g \in 1..Len(groups) :
         /\ Len(groups[g].nodes) >= 2
         /\ \A i \in 1..Len(groups[g].nodes) :
              LET n == groups[g].nodes[i].id IN
              /\ doc[n].type \in {"FRAME", "GROUP"}
              /\ Len(doc[n].kids) >= 1
              /\ buildFingerprint(doc, n, 0) = groups[g].fingerprint
    /\ ~ includeProt =>
         /\ \A g \in 1..Len(groups) : \A i \in 1..Len(groups[g].nodes) :
              /\ ~ groups[g].nodes[i].insideProtected
              /\ ~ HasProtectedAncestor(groups[g].nodes[i].id)
         /\ \A v \in visited : ~ HasProtectedAncestor(v)

\* a default scan of a document whose cards M1 and M2 are inside a
\* COMPONENT, which returned groups
C10_Witness ==
  /\ phase = "scanned"
  /\ ~ includeProt
  /\ doc[2].type = "COMPONENT"
  /\ doc[2].kids # <<>>
  /\ Len(groups) >= 1

(***************************************************************************)
(* Vocabulary of the layout properties.                                    *)
(***************************************************************************)
Analysed == config # <<>>

LayoutNodes == 1..Len(tree)

IssueIdx == 1..Len(issues)

PerNodeDetectors == {"edge", "wide", "centered", "fullBleed"}

\* the issues of the last analysis about node n
IssuesOf(n) == {i \in IssueIdx : issues[i].nodeId = n}

(***************************************************************************)
(* C11  Layout issue dedup: the list returned by one checkLayout call never*)
(* holds two issues with the same (nodeId, kind), and each per-node        *)
(* detector contributes at most one issue for a given node.                *)
(***************************************************************************)
C11_IssueDedup ==
  Analysed =>
    /\ \A i, j \in IssueIdx :
         i # j => <<issues[i].nodeId, issues[i].kind>> # <<issues[j].nodeId, issues[j].kind>>
    /\ \A n \in LayoutNodes : \A by \in PerNodeDetectors :
         Cardinality({i \in IssuesOf(n) : issues[i].by = by}) <= 1

\* one node has issues of two detectors, and one kind is reported for two nodes
C11_Witness ==
  /\ Analysed
  /\ \E i, j \in IssueIdx :
       issues[i].nodeId = issues[j].nodeId /\ issues[i].by # issues[j].by
  /\ \E i, j \in IssueIdx :
       issues[i].nodeId # issues[j].nodeId /\ issues[i].kind = issues[j].kind

(***************************************************************************)
(* C12  Corner mismatch: a node with constraints in a FRAME/COMPONENT      *)
(* without auto-layout, whose gaps to two adjacent edges are both          *)
(* non-negative and below edgeProximityRatio of the inner parent dimension,*)
(* and whose constraint on at least one of the two axes is not the matching*)
(* anchor (MAX for right/bottom, MIN for left/top), gets a high-severity   *)
(* corner_constraint_mismatch whose expected value is the matching anchor  *)
(* pair (cornerConstraint check enabled).                                  *)
(***************************************************************************)
\* the anchor pair of the top-left corner, written like the other three
H_LEFT_V_TOP ==
  <<"H", ":", " ", "L", "E", "F", "T", ",", " ", "V", ":", " ", "T", "O", "P">>

Corners ==
  { [h |-> "right", v |-> "bottom", expected |-> Chars("H: RIGHT, V: BOTTOM")],
    [h |-> "right", v |-> "top",    expected |-> Chars("H: RIGHT, V: TOP")],
    [h |-> "left",  v |-> "bottom", expected |-> Chars("H: LEFT, V: BOTTOM")],
    [h |-> "left",  v |-> "top",    expected |-> H_LEFT_V_TOP] }

\* the matching anchor of an edge
Anchor(edge) == IF edge \in {"right", "bottom"} THEN "MAX" ELSE "MIN"

\* the gap of node n to an edge of the inner box of its parent
GapTo(n, edge) ==
  LET inner == innerSize(tree, tree[n].parent)
      nx == tree[n].x - inner.pl
      ny == tree[n].y - inner.pt
  IN CASE edge = "left"   -> nx
       [] edge = "right"  -> inner.w - (nx + tree[n].w)
       [] edge = "top"    -> ny
       [] edge = "bottom" -> inner.h - (ny + tree[n].h)

EdgeDim(n, edge) ==
  LET inner == innerSize(tree, tree[n].parent)
  IN IF edge \in {"left", "right"} THEN inner.w ELSE inner.h

IsNear(n, edge) ==
  /\ GapTo(n, edge) >= 0
  /\ 100 * GapTo(n, edge) < config[1].edgeProximityRatio * EdgeDim(n, edge)

\* node n sits in corner c and is not pinned there on at least one axis
MisanchoredIn(n, c) ==
  /\ IsNear(n, c.h) /\ IsNear(n, c.v)
  /\ (tree[n].hc # Anchor(c.h) \/ tree[n].vc # Anchor(c.v))

\* a node the per-node detectors with constraints look at
ConstrainedChild(n) ==
  /\ tree[n].live /\ tree[n].cons
  /\ parentOf(tree, n) # NoNode
  /\ ~ isAutoLayoutChild(tree, n)

C12_CornerMismatch ==
  (Analysed /\ config[1].checks.cornerConstraint /\ ~ config[1].onlyDefaults) =>
    \A n \in LayoutNodes : ConstrainedChild(n) =>
      \A c \in Corners : MisanchoredIn(n, c) =>
        \E i \in IssuesOf(n) :
          /\ issues[i].kind = "corner_constraint_mismatch"
          /\ issues[i].severity = "high"
          /\ issues[i].expected \in {k.expected : k \in {k \in Corners : MisanchoredIn(n, k)}}

(***************************************************************************)
(* C13  Tall-not-fill: with the wideTall check enabled, a node whose height*)
(* is at least fillRatio of its parent's inner height is reported with kind*)
(* tall_not_fill when its parent has no auto-layout and its vertical       *)
(* constraint is neither STRETCH nor SCALE, and in an auto-layout parent   *)
(* when the grow/align value of that axis is not the fill value.           *)
(***************************************************************************)
\* the height counterpart of the conditions of detectWideNotFill
TallNotFilling(n) ==
  LET par == parentOf(tree, n)
      ph == innerSize(tree, par).h
  IN /\ par # NoNode /\ tree[n].live
     /\ ph > 0
     /\ 100 * tree[n].h >= config[1].fillRatio * ph
     /\ IF isAutoLayoutChild(tree, n)
        THEN \/ tree[par].mode = "VERTICAL" /\ tree[n].grow = 0
             \/ tree[par].mode = "HORIZONTAL" /\ tree[n].align # "STRETCH"
        ELSE vConstraint(tree, n) \notin {"STRETCH", "SCALE"}

C13_TallNotFill ==
  (Analysed /\ config[1].checks.wideTall /\ ~ config[1].onlyDefaults) =>
    \A n \in LayoutNodes : TallNotFilling(n) =>
      \E i \in IssuesOf(n) : issues[i].kind = "tall_not_fill"

(***************************************************************************)
(* C14  onlyDefaults: with config.onlyDefaults every issue of checkLayout  *)
(* (per-node detectors and sibling-fill detector) is about a node whose    *)
(* values are the host defaults (horizontal = vertical = MIN under a parent*)
(* without auto-layout, layoutGrow = 0 and layoutAlign = INHERIT for an    *)
(* auto-layout child), and the issues are a subset of those reported with  *)
(* onlyDefaults = false on the same tree.                                  *)
(***************************************************************************)
AtHostDefaults(n) ==
  IF isAutoLayoutChild(tree, n)
  THEN tree[n].grow = 0 /\ tree[n].align = "INHERIT"
  ELSE hConstraint(tree, n) = "MIN" /\ vConstraint(tree, n) = "MIN"

\* what the same analysis reports with onlyDefaults = false
IssuesOfAll == checkLayout(tree, <<Page>>, [config[1] EXCEPT !.onlyDefaults = FALSE])

C14_OnlyDefaults ==
  (Analysed /\ config[1].onlyDefaults) =>
    /\ \A i \in IssueIdx : AtHostDefaults(issues[i].nodeId)
    /\ Range(issues) \subseteq Range(IssuesOfAll)

\* issues of a per-node detector and of the sibling-fill detector are
\* reported, and customised nodes were filtered out
C14_Witness ==
  /\ Analysed /\ config[1].onlyDefaults
  /\ \E i \in IssueIdx : issues[i].by = "sibling"
  /\ \E i \in IssueIdx : issues[i].by \in PerNodeDetectors
  /\ \E e \in Range(IssuesOfAll) : e \notin Range(issues) /\ e.by = "sibling"
  /\ \E e \in Range(IssuesOfAll) : e \notin Range(issues) /\ e.by \in PerNodeDetectors

(***************************************************************************)
(* C18  Config merge: mergeWithDefaults returns a complete LayoutConfig in *)
(* which every top-level field and every checks toggle the stored value    *)
(* has keeps the stored value and every missing one has its default (also  *)
(* without a checks object or with some toggles only); merging a complete  *)
(* config returns an equal config.                                         *)
(***************************************************************************)
TopFields == (DOMAIN DEFAULT_LAYOUT_CONFIG) \ {"checks"}

Toggles == DOMAIN DEFAULT_LAYOUT_CONFIG.checks

IsComplete(c) == DOMAIN c = DOMAIN DEFAULT_LAYOUT_CONFIG /\ DOMAIN c.checks = Toggles

\* m is s completed with the defaults
MergedFrom(s, m) ==
  /\ IsComplete(m)
  /\ \A f \in TopFields :
       m[f] = IF f \in DOMAIN s THEN s[f] ELSE DEFAULT_LAYOUT_CONFIG[f]
  /\ \A k \in Toggles :
       m.checks[k] = IF "checks" \in DOMAIN s /\ k \in DOMAIN s.checks
                     THEN s.checks[k]
                     ELSE DEFAULT_LAYOUT_CONFIG.checks[k]

C18_ConfigMerge ==
  [][ /\ (config' # config /\ stored # <<>>) =>
           /\ MergedFrom(stored[1], config'[1])
           /\ IsComplete(stored[1]) => config'[1] = stored[1]
      /\ stored' # stored =>
           /\ IsComplete(stored'[1])
           /\ mergeWithDefaults(stored'[1]) = stored'[1] ]_vars

\* an analysis ran on a stored config that lacks top-level fields and has
\* some of the toggles only
C18_Witness ==
  /\ Analysed /\ stored # <<>>
  /\ "fillRatio" \notin DOMAIN stored[1]
  /\ "centerTolerancePx" \in DOMAIN stored[1]
  /\ "checks" \in DOMAIN stored[1]
  /\ DOMAIN stored[1].checks \notin {{}, Toggles}
  /\ config[1].centerTolerancePx = stored[1].centerTolerancePx
  /\ config[1].centerTolerancePx # DEFAULT_LAYOUT_CONFIG.centerTolerancePx
  /\ config[1].checks.edgeConstraint # DEFAULT_LAYOUT_CONFIG.checks.edgeConstraint

(***************************************************************************)
(* Vocabulary of the fix properties.                                       *)
(***************************************************************************)
FixIdx == 1..Len(fixes)

\* call f fixed the single issue it was given
IsSingle(f) == Len(fixes[f].req) = 1

\* the nodes the issues of call f are about
TargetsOf(f) == {fixes[f].req[i].nodeId : i \in 1..Len(fixes[f].req)}

\* the layout settings of node n in tree t
SettingsOf(t, n) == <<t[n].hc, t[n].vc, t[n].grow, t[n].align>>

(***************************************************************************)
(* C15  Constraint fix: fixLayoutIssue on an edge_constraint_mismatch with *)
(* expected "H: RIGHT" succeeds and leaves the node with horizontal = MAX  *)
(* and its vertical constraint unchanged; expected "V: BOTTOM" sets        *)
(* vertical = MAX and leaves horizontal unchanged.  A fix never changes any*)
(* other node.                                                             *)
(***************************************************************************)
C15_ConstraintFix ==
  \A f \in FixIdx :
    LET before == fixes[f].before
        after == fixes[f].after
    IN /\ Len(after) = Len(before)
       /\ \A m \in 1..Len(before) : m \notin TargetsOf(f) => after[m] = before[m]
       /\ \A i \in 1..Len(fixes[f].req) :
            LET issue == fixes[f].req[i]
                n == issue.nodeId
            IN (/\ IsSingle(f)
                /\ issue.kind = "edge_constraint_mismatch"
                /\ GetLayoutNodeById(before, n) # NoNode) =>
                 /\ fixes[f].res[i].success
                 /\ issue.expected = Chars("H: RIGHT") =>
                      after[n].hc = "MAX" /\ after[n].vc = before[n].vc
                 /\ issue.expected = Chars("V: BOTTOM") =>
                      after[n].vc = "MAX" /\ after[n].hc = before[n].hc

\* the issue of a node near the right edge only and the issue of a node near
\* the bottom edge only were both fixed, the nodes being pinned MIN before
C15_Witness ==
  /\ \E f \in FixIdx :
       /\ IsSingle(f) /\ fixes[f].req[1] \in Range(issues)
       /\ fixes[f].req[1].expected = Chars("H: RIGHT")
       /\ fixes[f].before[fixes[f].req[1].nodeId].hc = "MIN"
       /\ fixes[f].after[fixes[f].req[1].nodeId].hc = "MAX"
  /\ \E f \in FixIdx :
       /\ IsSingle(f) /\ fixes[f].req[1] \in Range(issues)
       /\ fixes[f].req[1].expected = Chars("V: BOTTOM")
       /\ fixes[f].before[fixes[f].req[1].nodeId].vc = "MIN"
       /\ fixes[f].after[fixes[f].req[1].nodeId].vc = "MAX"

(***************************************************************************)
(* C16  Fix idempotence: for every LayoutIssueKind, fixLayoutIssue called a*)
(* second time with the same issue after a successful first call succeeds  *)
(* again and leaves the node's constraints, layoutGrow and layoutAlign as  *)
(* they were after the first call.                                         *)
(***************************************************************************)
\* call f + 1 repeats the successful call f on the tree f left
Repeats(f) ==
  /\ f + 1 \in FixIdx
  /\ IsSingle(f) /\ IsSingle(f + 1)
  /\ fixes[f + 1].req = fixes[f].req
  /\ fixes[f].res[1].success
  /\ fixes[f + 1].before = fixes[f].after

C16_FixIdempotence ==
  \A f \in FixIdx : Repeats(f) =>
    /\ fixes[f + 1].res[1].success
    /\ SettingsOf(fixes[f + 1].after, fixes[f].req[1].nodeId)
         = SettingsOf(fixes[f].after, fixes[f].req[1].nodeId)

\* a fix that changed the node was repeated
C16_Witness ==
  \E f \in FixIdx :
    /\ Repeats(f)
    /\ fixes[f].after # fixes[f].before
    /\ fixes[f].req[1].expected = Chars("layoutGrow: 1 (Fill)")
    /\ fixes[f + 1].res[1].success

(***************************************************************************)
(* C17  Fix-all partial failure: fixAllLayoutIssues returns one result per *)
(* input issue, in input order; an issue whose node no longer resolves or  *)
(* lacks the needed property fails and leaves the tree unchanged for that  *)
(* item without aborting the batch; the outcome of every issue is the same *)
(* for every permutation of the input list, and every valid fix is applied.*)
(***************************************************************************)
\* the handler of the issue needs the node to have constraints
NeedsConstraints(issue) ==
  \/ issue.kind \in {"corner_constraint_mismatch", "edge_constraint_mismatch",
                     "both_edges_not_stretch", "centered_h_not_center",
                     "centered_v_not_center", "full_bleed_not_stretch"}
  \/ /\ issue.kind \in {"wide_not_fill", "tall_not_fill"}
     /\ issue.expected \notin {Chars("layoutGrow: 1 (Fill)"), Chars("layoutAlign: STRETCH")}

\* the issue cannot be fixed on tree t
Unfixable(t, issue) ==
  \/ GetLayoutNodeById(t, issue.nodeId) = NoNode
  \/ NeedsConstraints(issue) /\ ~ t[issue.nodeId].cons

\* the list s in the order given by the permutation pi
Permuted(s, pi) == Tup([i \in 1..Len(s) |-> s[pi[i]]])

\* the tree after the first k issues of the batch
TreeAfter(f, k) == fixAllLayoutIssues(fixes[f].before, SubSeq(fixes[f].req, 1, k)).t

C17_FixAllPartialFailure ==
  \A f \in FixIdx :
    LET req == fixes[f].req
        res == fixes[f].res
        before == fixes[f].before
    IN /\ Len(res) = Len(req)
       /\ \A i \in 1..Len(req) :
            /\ res[i].nodeId = req[i].nodeId /\ res[i].kind = req[i].kind
            /\ res[i].success = ~ Unfixable(before, req[i])
            /\ ~ res[i].success => TreeAfter(f, i) = TreeAfter(f, i - 1)
            /\ (res[i].success /\ \A j \in 1..Len(req) : j # i => req[j].nodeId # req[i].nodeId)
                 => fixes[f].after[req[i].nodeId]
                      = fixLayoutIssue(before, req[i]).t[req[i].nodeId]
       /\ \A pi \in Permutations(1..Len(req)) :
            LET run == fixAllLayoutIssues(before, Permuted(req, pi))
            IN /\ Len(run.results) = Len(req)
               /\ \A i \in 1..Len(req) : run.results[i].success = res[pi[i]].success

\* a batch of three with the issue of a deleted node first: one failure and
\* two successes, both fixes applied
C17_Witness ==
  \E f \in FixIdx :
    LET req == fixes[f].req
        res == fixes[f].res
    IN /\ Len(req) = 3
       /\ GetLayoutNodeById(fixes[f].before, req[1].nodeId) = NoNode
       /\ ~ res[1].success /\ res[2].success /\ res[3].success
       /\ req[2].nodeId # req[3].nodeId
       /\ fixes[f].after[req[2].nodeId] # fixes[f].before[req[2].nodeId]
       /\ fixes[f].after[req[3].nodeId] # fixes[f].before[req[3].nodeId]

(***************************************************************************)
(* Vocabulary of the variant properties.                                   *)
(***************************************************************************)
CombineIdx == 1..Len(combine)

\* the positions of the requested ids that resolve to a node outside any
\* COMPONENT or INSTANCE
Participating(c) ==
  { i \in 1..Len(c.req.nodeIds) :
      LET id == c.req.nodeIds[i] IN
      /\ id \in 1..Len(c.before) /\ c.before[id].live
      /\ ~ \E a \in Ancestors(c.before, id) :
             c.before[a].type \in {"COMPONENT", "INSTANCE"} }

\* C19: a combine request with fewer than 2 ids, or with fewer than 2 ids
\* that resolve to nodes outside any COMPONENT/INSTANCE, fails (success =
\* false, componentSetId = null, variantCount = 0) and leaves the document
\* exactly as it was.
C19_CombineMinimum ==
  \A k \in CombineIdx :
    LET c == combine[k] IN
    (Len(c.req.nodeIds) < 2 \/ Cardinality(Participating(c)) < 2) =>
      /\ c.result.success = FALSE
      /\ c.result.componentSetId = NoNode
      /\ c.result.variantCount = 0
      /\ c.after = c.before

\* two ids were requested, one of them takes part, and the call failed
C19_Witness ==
  \E k \in CombineIdx :
    LET c == combine[k] IN
    /\ Len(c.req.nodeIds) >= 2
    /\ Cardinality(Participating(c)) = 1
    /\ ~ c.result.success
    /\ c.after = c.before

\* the name the k-th variant of a family has to carry
FamilyName(c, k) ==
  (IF c.req.propertyName = <<>> THEN Units("State") ELSE c.req.propertyName)
    \o Units("=")
    \o (IF k = 1 THEN Units("Default") ELSE Units("Variant") \o NumStr(k))

\* the variants of the family a successful call built, in member order
Family(c) == c.after[c.result.componentSetId].kids

\* C20: in a successful combine the first variant is named
\* "<propertyName>=Default" and the following ones "<propertyName>=Variant2",
\* "<propertyName>=Variant3", ... in member order; exactly one variant is
\* named Default and the names of one family are pairwise distinct, also
\* when requested ids were skipped.
C20_VariantNaming ==
  \A n \in CombineIdx :
    LET c == combine[n] IN
    c.result.success =>
      /\ \A k \in 1..Len(Family(c)) :
           c.after[Family(c)[k]].name = FamilyName(c, k)
      /\ Cardinality({k \in 1..Len(Family(c)) :
                        c.after[Family(c)[k]].name = FamilyName(c, 1)}) = 1
      /\ \A j, k \in 1..Len(Family(c)) :
           j # k => c.after[Family(c)[j]].name # c.after[Family(c)[k]].name

\* the nodes a call created
NewNodes(c) == (Len(c.before) + 1)..Len(c.after)

\* the variant component the call built from the original id, NoNode when
\* its conversion failed
VariantOf(c, id) ==
  IF \E k \in 1..Len(c.sources) : c.sources[k] = id
  THEN c.components[CHOOSE k \in 1..Len(c.sources) : c.sources[k] = id]
  ELSE NoNode

\* the instances the call put at the snapshotted place of an entry
AtPlace(c, e) ==
  { n \in NewNodes(c) :
      /\ c.after[n].live /\ c.after[n].type = "INSTANCE"
      /\ c.after[n].parent = e.snapshot.parentId
      /\ c.after[n].x = e.snapshot.relX /\ c.after[n].y = e.snapshot.relY }

InOwnPlace(c, e) ==
  /\ \E n \in AtPlace(c, e) :
       /\ c.after[n].main = VariantOf(c, e.originalId)
       /\ IndexOf(c.after[e.snapshot.parentId].kids, n) = e.snapshot.zIndex
  /\ \A n \in AtPlace(c, e) : c.after[n].main = VariantOf(c, e.originalId)

\* C21: after a successful combine the place of each converted original
\* (snapshotted parent, child index, relative x/y) holds an instance of the
\* variant built from that original and of no other, and no instance is
\* at the place of a member whose conversion failed.
C21_InPlaceReplacement ==
  \A k \in CombineIdx :
    LET c == combine[k] IN
    c.result.success =>
      \A i \in 1..Len(c.entries) :
        IF VariantOf(c, c.entries[i].originalId) # NoNode
        THEN InOwnPlace(c, c.entries[i])
        ELSE AtPlace(c, c.entries[i]) = {}

\* the components created during the call that are still in the document
Orphans(c) ==
  { n \in NewNodes(c) : c.after[n].type = "COMPONENT" /\ c.after[n].live }

\* C22: when fewer than 2 members were converted, or the host's merge
\* throws, the call returns success = false and componentSetId = null and
\* no component created during the call is left in the document.
C22_VariantCleanup ==
  \A k \in CombineIdx :
    LET c == combine[k] IN
    (Len(c.sources) < 2 \/ c.mergeThrows) =>
      /\ c.result.success = FALSE
      /\ c.result.componentSetId = NoNode
      /\ Orphans(c) = {}

\* the member was converted and an instance is in the tree at its place
Replaced(c, id) ==
  /\ VariantOf(c, id) # NoNode
  /\ \E i \in 1..Len(c.entries) :
       c.entries[i].originalId = id /\ AtPlace(c, c.entries[i]) # {}

Requested(c) == Range(c.req.nodeIds)

\* C23: every requested id of a combine that succeeded is either replaced
\* by an instance placed in the tree or named by an entry of the errors
\* list, and the success figure counts no member without an instance.
C23_NothingDropped ==
  \A k \in CombineIdx :
    LET c == combine[k] IN
    c.result.success =>
      /\ \A id \in Requested(c) :
           \/ Replaced(c, id)
           \/ \E j \in 1..Len(c.result.errors) : c.result.errors[j].id = id
      /\ c.result.variantCount <= Cardinality({id \in Requested(c) : Replaced(c, id)})

\* the nodes that existed before the call are what they were, and nothing
\* the call created is left
SameTree(c) ==
  /\ \A n \in 1..Len(c.before) : c.after[n] = c.before[n]
  /\ \A n \in NewNodes(c) : ~ c.after[n].live

\* C27: whenever combineAsVariants returns success = false the document
\* tree is the same as before the call.
C27_FailedCombineNoChange ==
  \A k \in CombineIdx :
    LET c == combine[k] IN
    ~ c.result.success => SameTree(c)

\* C25: when the node turned into a definition by convertGroups is a GROUP,
\* none of the group's own children is reparented into the new component
\* (the component holds clones of them).
C25_GroupSourceCloned ==
  Converted =>
    \A k \in ReqIdx :
      LET master == requests[k].nodeIds[1] IN
      ( /\ results[k].componentId # NoNode
        /\ GetNodeById(pre, master) # NoNode
        /\ pre[master].type = "GROUP" ) =>
          \A ch \in Range(pre[master].kids) :
            doc[ch].parent \notin ({results[k].componentId} \cup results[k].comps)

(***************************************************************************)
(* C26  Layout metadata before children: when an auto-layout FRAME is      *)
(* extracted into a definition, on the free path or on the protected path, *)
(* the component has the source's layout mode, item spacing, four paddings *)
(* and sizing modes when its first child is appended, and still has them   *)
(* when the extraction has ended.                                          *)
(***************************************************************************)
\* the requests whose master was an auto-layout frame and became a definition
AutoMasters ==
  { k \in ReqIdx :
      /\ results[k].componentId # NoNode
      /\ GetNodeById(pre, requests[k].nodeIds[1]) # NoNode
      /\ IsAutoLayout(pre, requests[k].nodeIds[1]) }

Spacing(l) ==
  [layoutMode |-> l.layoutMode, itemSpacing |-> l.itemSpacing,
   paddingLeft |-> l.paddingLeft, paddingRight |-> l.paddingRight,
   paddingTop |-> l.paddingTop, paddingBottom |-> l.paddingBottom]

C26_LayoutBeforeChildren ==
  Converted =>
    \A k \in AutoMasters :
      LET src == pre[requests[k].nodeIds[1]].lay
          comp == doc[results[k].componentId]
      IN /\ comp.atFirst = <<src>>
         /\ comp.lay = src

\* the part of C26 that does not depend on the sizing modes
L26_SpacingBeforeChildren ==
  Converted =>
    \A k \in AutoMasters :
      LET src == pre[requests[k].nodeIds[1]].lay
          comp == doc[results[k].componentId]
      IN /\ Len(comp.atFirst) = 1
         /\ Spacing(comp.atFirst[1]) = Spacing(src)
         /\ Spacing(comp.lay) = Spacing(src)

\* C26 when the host's resize() leaves the sizing modes alone
L26_NoPinning ==
  (Converted /\ ~ resizePins) =>
    \A k \in AutoMasters :
      LET src == pre[requests[k].nodeIds[1]].lay
          comp == doc[results[k].componentId]
      IN comp.atFirst = <<src>> /\ comp.lay = src

L26_Witness == Converted /\ AutoMasters # {}

(***************************************************************************)
(* C28  A fix resolves its issue: for every issue returned by checkLayout  *)
(* with some config, if fixLayoutIssue on it succeeds and nothing else     *)
(* changes the tree, a checkLayout with the same config that follows       *)
(* immediately returns no issue with the same nodeId and kind.             *)
(***************************************************************************)
\* call f fixed, with success, one issue that checkLayout returns on the
\* tree the call started from
FixesReported(f) ==
  /\ IsSingle(f)
  /\ config # <<>>
  /\ fixes[f].req[1] \in Range(checkLayout(fixes[f].before, <<Page>>, config[1]))
  /\ fixes[f].res[1].success

\* checkLayout on the tree call f left still has the issue of call f
StillReported(f) ==
  \E j \in Range(checkLayout(fixes[f].after, <<Page>>, config[1])) :
    /\ j.nodeId = fixes[f].req[1].nodeId
    /\ j.kind = fixes[f].req[1].kind

C28_FixResolves ==
  \A f \in FixIdx : FixesReported(f) => ~ StillReported(f)

(***************************************************************************)
(* C29  Scan and fix converge: from any tree and any config, repeating the *)
(* round "checkLayout, then fixAllLayoutIssues on the returned list"       *)
(* reaches after finitely many rounds a tree on which checkLayout returns  *)
(* an empty list; the fixes of one node never undo each other in a cycle.  *)
(***************************************************************************)
\* an analysis has run and checkLayout finds nothing on the tree
Settled == config # <<>> /\ checkLayout(tree, <<Page>>, config[1]) = <<>>

C29_RoundsConverge == <>Settled

\* the rounds end with a tree that no longer changes
L29_NoCycle == <>[][tree' = tree]_vars

\* every issue that is left in the end is one whose fix fails
L29_OnlyUnfixable ==
  <>[](config # <<>> /\ \A i \in Range(checkLayout(tree, <<Page>>, config[1])) :
         ~ fixLayoutIssue(tree, i).result.success)

(***************************************************************************)
(* C30  Group members are disjoint subtrees: in the result of one          *)
(* scanComponentCandidates call every node id appears in at most one group *)
(* and at most once in it, and no group contains two nodes of which one is *)
(* an ancestor of the other.                                               *)
(***************************************************************************)
GroupIdx == 1..Len(groups)
NodeIdx(g) == 1..Len(groups[g].nodes)

\* every node id is listed once at most
ListedOnce ==
  \A g, h \in GroupIdx : \A i \in NodeIdx(g) : \A j \in NodeIdx(h) :
    groups[g].nodes[i].id = groups[h].nodes[j].id => g = h /\ i = j

\* no member of a group lies inside another member of that group
NoNestedMembers ==
  \A g \in GroupIdx : \A i, j \in NodeIdx(g) :
    groups[g].nodes[i].id \notin Ancestors(doc, groups[g].nodes[j].id)

C30_DisjointMembers == phase = "scanned" => ListedOnce /\ NoNestedMembers

\* the first half of C30 alone
L30_ListedOnce == phase = "scanned" => ListedOnce


(***************************************************************************)
(* C24  Config persistence ordering: a saveLayoutConfig request is answered*)
(* with a success reply only after the merged config has been written to   *)
(* the storage, and the reply carries the config that was stored; a        *)
(* loadLayoutConfig or analyzeLayout request issued after that reply uses  *)
(* exactly that config (as long as no later write has replaced it); a      *)
(* failed write is answered with a failure reply, never a success reply;   *)
(* every save, load, reset and analyzeLayout request eventually gets       *)
(* exactly one reply.                                                      *)
(***************************************************************************)
IsSave(i) == calls[i].type = "saveLayoutConfig"
IsWrite(i) == calls[i].type \in WriteTypes
IsRead(i) == calls[i].type \in ReadTypes
Succeeded(i) == calls[i].reply # <<>> /\ calls[i].reply[1].success

\* msg.config ?? {} completed with the defaults
MergedMessage(i) ==
  mergeWithDefaults(IF calls[i].msg = <<>> THEN [k \in {} |-> TRUE] ELSE calls[i].msg[1])

\* a success reply to a save comes after its write and carries what was stored
SavedBeforeReply ==
  \A i \in CallIdx : (IsSave(i) /\ Succeeded(i)) =>
    /\ calls[i].wno > 0
    /\ calls[i].wrote = <<MergedMessage(i)>>
    /\ calls[i].reply[1].config = calls[i].wrote

\* read l was issued after the reply to save s and read what s wrote
ReadsAfter(s, l) ==
  /\ IsSave(s) /\ Succeeded(s)
  /\ IsRead(l) /\ s \in calls[l].after
  /\ pcs[l] \in {"resolved", "replied"}
  /\ calls[l].saw = calls[s].wno

UsesSaved ==
  \A s, l \in CallIdx : ReadsAfter(s, l) =>
    /\ calls[l].got = <<calls[s].wrote>>
    /\ pcs[l] = "replied" =>
         /\ Succeeded(l)
         /\ calls[l].reply[1].config = calls[s].wrote
         /\ calls[l].type = "analyzeLayout" =>
              calls[l].reply[1].data = checkLayout(tree, <<Page>>, calls[s].wrote[1])

\* a rejected operation is answered with a failure, a completed one with success
FailureAnswered ==
  \A i \in CallIdx : pcs[i] = "replied" =>
    /\ calls[i].failed => ~ calls[i].reply[1].success /\ calls[i].wno = 0
    /\ ~ calls[i].failed => calls[i].reply[1].success

\* no call is answered twice
OneReplyAtMost ==
  \A i \in CallIdx :
    calls[i].replies = IF pcs[i] = "replied" THEN 1 ELSE 0

ConfigSafe == SavedBeforeReply /\ UsesSaved /\ FailureAnswered /\ OneReplyAtMost

Issued(i) == i \in CallIdx
Replied(i) == i \in CallIdx /\ calls[i].replies = 1

C24_ConfigOrdering ==
  /\ []ConfigSafe
  /\ \A i \in 1..MaxRequests : Issued(i) ~> Replied(i)

\* a save of a config that is not the default one was answered and an
\* analysis asked for after that answer came back with that config
C24_Witness ==
  \E s, l \in CallIdx :
    /\ ReadsAfter(s, l)
    /\ calls[s].wrote # <<DEFAULT_LAYOUT_CONFIG>>
    /\ calls[l].type = "analyzeLayout"
    /\ Succeeded(l)
    /\ calls[l].reply[1].config = calls[s].wrote
    /\ calls[l].reply[1].data # <<>>

====
